---------------------------- MODULE Spec2Model ----------------------------
(***************************************************************************)
(* Model of the squarified treemap layout engine of culture-heatmap        *)
(* (src/src/utils/layout.js, calculateLayout) and of a caller that invokes *)
(* it.  Spec applies one call to every bounded input; SessionSpec lets the *)
(* caller make up to MaxCalls calls, changing one input between two calls. *)
(* HeatmapSpec is one render of the Heatmap component (the caller in the   *)
(* application) over bounded props: its sections and the arguments of its  *)
(* calculateLayout calls.                                                  *)
(*                                                                         *)
(* Numbers.  JavaScript numbers are modelled as exact rationals <<n, d>>   *)
(* with d > 0 in lowest terms (d = 0 stands for the result of a division   *)
(* by zero).  IEEE-754 rounding is outside the model: every equality the   *)
(* properties below state is an equality of the real-number results.       *)
(***************************************************************************)
EXTENDS Integers, Sequences, FiniteSets, TLC

(***************************************************************************)
(* Bounds of the model.                                                    *)
(***************************************************************************)
MaxItems == 4
MaxSize == 2
MaxDim == 3
MaxPad == 2
MaxCalls == 3
MaxTrends == 3
MaxCategories == 3
MaxFetches == 2
MaxTime == 7
MaxStamp == 2
MaxCount == 1
MaxIds == 3
MaxWeek == 2
MaxHandled == 3

(* The model follows layoutSquarified through at most MaxDepth nested      *)
(* calls in one pass: one more than the longest list has items.            *)
MaxDepth == MaxItems + 1

(***************************************************************************)
(* The state: a caller holding an items array, container dimensions and a  *)
(* padding, and the outcome of its last call of calculateLayout.           *)
(***************************************************************************)
VARIABLES
  items,       \* the caller's items array
  argWidth,    \* the containerWidth the caller passes
  argHeight,   \* the containerHeight the caller passes
  argPadding,  \* the padding the caller passes
  pc,          \* "idle": about to call; "returned": the call has returned
  layouts,     \* the list the last call returned
  cells,       \* the cells of the last call, in the order of layouts
  passed,      \* the items argument of the last call, as it was at the call
  frames,      \* the layoutSquarified invocations of the last call's final pass
  calls,       \* number of calls made
  memo         \* one earlier call, remembered with its result

(***************************************************************************)
(* The Heatmap component: its props and what its last render computed.     *)
(***************************************************************************)
VARIABLES
  trends,      \* the trends prop
  categories,  \* the categories prop
  format,      \* the format prop: "feed" or "story"
  rendered,    \* the component has rendered with these props
  sections,    \* the sections of the last render
  scaledBy,    \* the totalSize the last render scaled the sections by
  layoutCalls  \* the arguments of the calculateLayout calls of the last render

layoutVars ==
  <<items, argWidth, argHeight, argPadding, pc, layouts, cells, frames, passed, calls, memo>>

heatmapVars == <<trends, categories, format, rendered, sections, scaledBy, layoutCalls>>

(***************************************************************************)
(* The trend aggregator (utils/aggregator): its module-level cache, the    *)
(* clock, and the fetchAllTrending calls made so far.                      *)
(***************************************************************************)
VARIABLES
  now,             \* Date.now(), in minutes
  cachedData,      \* 0 (null), or the number of the call whose results object is cached
  cacheTimestamp,  \* 0 (null), or the time the cache was written
  configured,      \* the optional sources that are configured
  fetches,         \* the fetchAllTrending calls, in the order they were made
  clearedAfter,    \* -1, or the number of calls made before the last clearCache()
  lastEvent        \* what the last step of the aggregator did

aggregatorVars ==
  <<now, cachedData, cacheTimestamp, configured, fetches, clearedAfter, lastEvent>>


(***************************************************************************)
(* The watchlist (utils/watchlist): localStorage's entry, the module's     *)
(* DEFAULT_WATCHLIST object, and what the last call returned.              *)
(***************************************************************************)
VARIABLES
  wlStorage,          \* localStorage[WATCHLIST_KEY]
  DEFAULT_WATCHLIST,  \* the fields of the module's DEFAULT_WATCHLIST object
  wlClock,            \* Date.now()
  wlReturned,         \* the fields of the object the last call returned, when it returned
  wlLast              \* the name of the last call

watchlistVars == <<wlStorage, DEFAULT_WATCHLIST, wlClock, wlReturned, wlLast>>


(***************************************************************************)
(* The preferences: localStorage's entry, the module's DEFAULT_PREFERENCES *)
(* object, and the name of the last call.                                  *)
(***************************************************************************)
VARIABLES
  prefStorage,          \* localStorage[PREFERENCES_KEY]
  DEFAULT_PREFERENCES,  \* the fields of the module's DEFAULT_PREFERENCES object
  prefLast              \* the name of the last call

preferencesVars == <<prefStorage, DEFAULT_PREFERENCES, prefLast>>


(***************************************************************************)
(* The App component: its trends and editingTrend state, localStorage's    *)
(* trends and history entries, the current ISO week, and what the last     *)
(* handler was called with.                                                *)
(***************************************************************************)
VARIABLES
  appTrends,      \* the trends state
  editingTrend,   \* <<>> (null), or <<the trend being edited>>
  trendsStorage,  \* localStorage[TRENDS_KEY]
  history,        \* localStorage[HISTORY_KEY], parsed: week |-> snapshot
  historyBefore,  \* the history before the last handler ran
  appWeek,        \* the ISO week of the moment
  nextId,         \* how many ids were handed out
  appLast         \* the last handler, the list it saw and the trend or id it was given

appVars ==
  <<appTrends, editingTrend, trendsStorage, history, historyBefore, appWeek, nextId, appLast>>


(***************************************************************************)
(* The CategoryManager: the categories prop, which App keeps and stores,   *)
(* how many categories were added, and the name of the last handler.       *)
(***************************************************************************)
VARIABLES
  managed,   \* the categories
  added,     \* how many ids generateId() handed out
  handled,   \* how many handlers ran
  cmLast     \* the name of the last handler

managerVars == <<managed, added, handled, cmLast>>

(* What is outside the layout caller, and outside the Heatmap.              *)
besideLayout == <<heatmapVars, aggregatorVars, watchlistVars, preferencesVars, appVars, managerVars>>
besideHeatmap == <<layoutVars, aggregatorVars, watchlistVars, preferencesVars, appVars, managerVars>>
besideAggregator == <<layoutVars, heatmapVars, watchlistVars, preferencesVars, appVars, managerVars>>
besideWatchlist == <<layoutVars, heatmapVars, aggregatorVars, preferencesVars, appVars, managerVars>>
besidePreferences == <<layoutVars, heatmapVars, aggregatorVars, watchlistVars, appVars, managerVars>>
besideApp == <<layoutVars, heatmapVars, aggregatorVars, watchlistVars, preferencesVars, managerVars>>
besideManager == <<layoutVars, heatmapVars, aggregatorVars, watchlistVars, preferencesVars, appVars>>

vars == <<layoutVars, heatmapVars, aggregatorVars, watchlistVars, preferencesVars, appVars, managerVars>>

(***************************************************************************)
(* Rational arithmetic.                                                    *)
(***************************************************************************)
Abs(n) == IF n < 0 THEN -n ELSE n

RECURSIVE GCD(_, _)
GCD(a, b) == IF b = 0 THEN a ELSE GCD(b, a % b)

Norm(n, d) ==
  LET g == GCD(Abs(n), Abs(d)) IN
  IF g = 0 THEN <<0, 0>>
  ELSE IF d < 0 THEN <<(-n) \div g, (-d) \div g>>
  ELSE <<n \div g, d \div g>>

R(n) == <<n, 1>>
RAdd(a, b) == Norm(a[1] * b[2] + b[1] * a[2], a[2] * b[2])
RSub(a, b) == Norm(a[1] * b[2] - b[1] * a[2], a[2] * b[2])
RMul(a, b) == Norm(a[1] * b[1], a[2] * b[2])
RDiv(a, b) == Norm(a[1] * b[2], a[2] * b[1])
RLe(a, b) == a[1] * b[2] <= b[1] * a[2]
RLt(a, b) == a[1] * b[2] < b[1] * a[2]
RGe(a, b) == RLe(b, a)
RMax(a, b) == IF RLe(a, b) THEN b ELSE a
RMin(a, b) == IF RLe(a, b) THEN a ELSE b
Zero == R(0)
Infinity == <<1, 0>>

(***************************************************************************)
(* Objects.  { ...item, k: v } copies every field of item and then sets    *)
(* the fields of extra.                                                    *)
(***************************************************************************)
Spread(item, extra) ==
  [f \in (DOMAIN item) \cup (DOMAIN extra) |->
     IF f \in DOMAIN extra THEN extra[f] ELSE item[f]]

(* A trend as the editor stores it: beside id and size it carries fields   *)
(* the layout engine never reads.                                           *)
Item(id, size) ==
  [id |-> id, name |-> ToString(id), size |-> size, change |-> 0 - id,
   category |-> "sounds"]

RECURSIVE SumSizes(_)
SumSizes(its) ==
  IF Len(its) = 0 THEN 0 ELSE its[1].size + SumSizes(Tail(its))

(* Mutant: the size is divided by the number of items, not by their total.  *)
NormalizeByCount(its, totalSize, totalArea) ==
  [i \in 1..Len(its) |->
     Spread(its[i],
            [normalizedSize |-> RMul(RDiv(R(its[i].size), R(Len(its))), totalArea)])]

(* items.map(item => ({...item, normalizedSize: (item.size / totalSize) * totalArea })) *)
Normalize(its, totalSize, totalArea) ==
  [i \in 1..Len(its) |->
     Spread(its[i],
            [normalizedSize |-> RMul(RDiv(R(its[i].size), R(totalSize)), totalArea)])]

(* Array.prototype.sort with (a, b) => b.normalizedSize - a.normalizedSize:   *)
(* stable, largest normalizedSize first.                                    *)
RECURSIVE InsertDesc(_, _)
InsertDesc(sorted, it) ==
  IF Len(sorted) = 0 THEN <<it>>
  ELSE IF RGe(sorted[1].normalizedSize, it.normalizedSize)
       THEN <<sorted[1]>> \o InsertDesc(Tail(sorted), it)
       ELSE <<it>> \o sorted

(* Mutant: the equal items of the list change places: the list is sorted    *)
(* from its reversal.                                                       *)
RECURSIVE SortDescFromEnd(_)
SortDescFromEnd(its) ==
  IF Len(its) = 0 THEN <<>>
  ELSE InsertDesc(SortDescFromEnd(Tail(its)), its[1])

RECURSIVE SortDesc(_)
SortDesc(its) ==
  IF Len(its) = 0 THEN <<>>
  ELSE InsertDesc(SortDesc(SubSeq(its, 1, Len(its) - 1)), its[Len(its)])


(***************************************************************************)
(* The accumulator `layouts` of one call.  Beside every pushed rectangle   *)
(* the model records the cell (the area before the padding inset) it was   *)
(* cut from, and for every invocation of layoutSquarified on one or more   *)
(* items a frame: its arguments, the number of cells pushed before it, and *)
(* the row it closed.  The code returns neither cells nor frames.          *)
(***************************************************************************)
NoLayouts == [layouts |-> <<>>, cells |-> <<>>, frames |-> <<>>]

Cell(id, x, y, width, height) ==
  [id |-> id, x |-> x, y |-> y, width |-> width, height |-> height]

(* Mutant: the rectangle is built from the id and the geometry alone.       *)
PushGeometry(acc, item, x, y, width, height, cell) ==
  [layouts |-> Append(acc.layouts,
                      [id |-> item.id, x |-> x, y |-> y, width |-> width, height |-> height]),
   cells |-> Append(acc.cells, cell),
   frames |-> acc.frames]

(* layouts.push({ ...item, x, y, width, height }) *)
Push(acc, item, x, y, width, height, cell) ==
  [layouts |-> Append(acc.layouts,
                      Spread(item, [x |-> x, y |-> y, width |-> width, height |-> height])),
   cells |-> Append(acc.cells, cell),
   frames |-> acc.frames]

(* One invocation layoutSquarified(items, x, y, width, height) as it closes *)
(* its row.  The one-item base case computes no direction and no row: its   *)
(* frame has row 0.                                                         *)
Frame(its, x, y, width, height, emitted, vertical, side, row, rowLength) ==
  [items |-> its, x |-> x, y |-> y, width |-> width, height |-> height,
   emitted |-> emitted, vertical |-> vertical, side |-> side, row |-> row,
   rowLength |-> rowLength]

Enter(acc, frame) == [acc EXCEPT !.frames = Append(@, frame)]

(* worstRatio(row, area, side) *)
RECURSIVE WorstOver(_, _, _, _)
WorstOver(row, k, length, worst) ==
  IF k > Len(row) THEN worst
  ELSE LET itemSide == RDiv(row[k].normalizedSize, length)
           ratio == RMax(RDiv(length, itemSide), RDiv(itemSide, length))
       IN WorstOver(row, k + 1, length, RMax(worst, ratio))

WorstRatio(row, area, side) ==
  IF Len(row) = 0 THEN Infinity
  ELSE WorstOver(row, 1, RDiv(area, side), Zero)

(* Mutant: an item joins the row only when it makes the row better.         *)
StrictlyBetter(testWorst, currentWorst) == RLt(testWorst, currentWorst)

(* Mutant: the comparison is turned around.                                 *)
NotBetter(testWorst, currentWorst) == RGe(testWorst, currentWorst)

(* if (testWorst <= currentWorst): the next item joins the row.              *)
NotWorse(testWorst, currentWorst) == RLe(testWorst, currentWorst)

(* The while loop of layoutSquarified: the row grown from items[i..].       *)
RECURSIVE GrowRow(_, _, _, _, _)
GrowRow(its, row, rowArea, i, side) ==
  IF i > Len(its) THEN [row |-> row, rowArea |-> rowArea]
  ELSE LET testRow == Append(row, its[i])
           testArea == RAdd(rowArea, its[i].normalizedSize)
       IN IF Len(row) = 0 THEN GrowRow(its, testRow, testArea, i + 1, side)
          ELSE IF NotWorse(WorstRatio(testRow, testArea, side), WorstRatio(row, rowArea, side))
               THEN GrowRow(its, testRow, testArea, i + 1, side)
               ELSE [row |-> row, rowArea |-> rowArea]

(* Mutant: the base case pushes the cell without the padding inset.         *)
PlaceSingleUninset(acc, item, x, y, width, height, padding) ==
  Push(acc, item,
       RAdd(x, RDiv(R(padding), R(2))),
       RAdd(y, RDiv(R(padding), R(2))),
       width,
       height,
       Cell(item.id, x, y, width, height))

(* Mutant: the base case offsets by the whole padding.                      *)
PlaceSingleFullOffset(acc, item, x, y, width, height, padding) ==
  Push(acc, item,
       RAdd(x, R(padding)),
       RAdd(y, R(padding)),
       RMax(RSub(width, R(padding)), Zero),
       RMax(RSub(height, R(padding)), Zero),
       Cell(item.id, x, y, width, height))

(* The push of the one-item base case.                                      *)
PlaceSingle(acc, item, x, y, width, height, padding) ==
  Push(acc, item,
       RAdd(x, RDiv(R(padding), R(2))),
       RAdd(y, RDiv(R(padding), R(2))),
       RMax(RSub(width, R(padding)), Zero),
       RMax(RSub(height, R(padding)), Zero),
       Cell(item.id, x, y, width, height))

(* Mutant: width and height are not clamped at 0.                           *)
PlaceVerticalUnclamped(acc, item, x, y, offset, rowLength, itemSize, padding) ==
  Push(acc, item,
       RAdd(x, RDiv(R(padding), R(2))),
       RAdd(RAdd(y, offset), RDiv(R(padding), R(2))),
       RSub(rowLength, R(padding)),
       RSub(itemSize, R(padding)),
       Cell(item.id, x, RAdd(y, offset), rowLength, itemSize))

(* The push of one row item when vertical (width >= height).                *)
PlaceVertical(acc, item, x, y, offset, rowLength, itemSize, padding) ==
  Push(acc, item,
       RAdd(x, RDiv(R(padding), R(2))),
       RAdd(RAdd(y, offset), RDiv(R(padding), R(2))),
       RMax(RSub(rowLength, R(padding)), Zero),
       RMax(RSub(itemSize, R(padding)), Zero),
       Cell(item.id, x, RAdd(y, offset), rowLength, itemSize))

(* Mutant: width and height as in the vertical branch.                      *)
PlaceHorizontalSwapped(acc, item, x, y, offset, rowLength, itemSize, padding) ==
  Push(acc, item,
       RAdd(RAdd(x, offset), RDiv(R(padding), R(2))),
       RAdd(y, RDiv(R(padding), R(2))),
       RMax(RSub(rowLength, R(padding)), Zero),
       RMax(RSub(itemSize, R(padding)), Zero),
       Cell(item.id, RAdd(x, offset), y, rowLength, itemSize))

(* The push of one row item when not vertical.                              *)
PlaceHorizontal(acc, item, x, y, offset, rowLength, itemSize, padding) ==
  Push(acc, item,
       RAdd(RAdd(x, offset), RDiv(R(padding), R(2))),
       RAdd(y, RDiv(R(padding), R(2))),
       RMax(RSub(itemSize, R(padding)), Zero),
       RMax(RSub(rowLength, R(padding)), Zero),
       Cell(item.id, RAdd(x, offset), y, itemSize, rowLength))

(* row.forEach(item => { ... offset += itemSize })                          *)
RECURSIVE PlaceRow(_, _, _, _, _, _, _, _, _)
PlaceRow(acc, row, k, offset, x, y, rowLength, vertical, padding) ==
  IF k > Len(row) THEN acc
  ELSE LET itemSize == RDiv(row[k].normalizedSize, rowLength)
           next == IF vertical
                   THEN PlaceVertical(acc, row[k], x, y, offset, rowLength, itemSize, padding)
                   ELSE PlaceHorizontal(acc, row[k], x, y, offset, rowLength, itemSize, padding)
       IN PlaceRow(next, row, k + 1, RAdd(offset, itemSize), x, y, rowLength, vertical, padding)

(* Mutant: the leftover rectangle moves but does not shrink.                *)
LeftoverUnshrunk(x, y, width, height, rowLength, vertical) ==
  IF vertical
  THEN [x |-> RAdd(x, rowLength), y |-> y, width |-> width, height |-> height]
  ELSE [x |-> x, y |-> RAdd(y, rowLength), width |-> width, height |-> height]

(* Mutant: the leftover rectangle shrinks but does not move.                *)
LeftoverUnmoved(x, y, width, height, rowLength, vertical) ==
  IF vertical
  THEN [x |-> x, y |-> y, width |-> RSub(width, rowLength), height |-> height]
  ELSE [x |-> x, y |-> y, width |-> width, height |-> RSub(height, rowLength)]

(* The rectangle left for the remaining items.                              *)
Leftover(x, y, width, height, rowLength, vertical) ==
  IF vertical
  THEN [x |-> RAdd(x, rowLength), y |-> y, width |-> RSub(width, rowLength), height |-> height]
  ELSE [x |-> x, y |-> RAdd(y, rowLength), width |-> width, height |-> RSub(height, rowLength)]

(* Mutant: the direction is decided the other way round.                    *)
IsVerticalWhenTaller(width, height) == RLt(width, height)

(* const vertical = width >= height                                         *)
IsVertical(width, height) == RGe(width, height)

(* Mutant: the side is the height in both directions.                       *)
SideAlwaysHeight(vertical, width, height) == height

(* const side = vertical ? height : width                                   *)
Side(vertical, width, height) == IF vertical THEN height ELSE width

(* Mutant: the last item of the row stays among the remaining items.        *)
RemainingFromRowEnd(its, row) == SubSeq(its, Len(row), Len(its))

(* const remaining = items.slice(row.length)                                *)
Remaining(its, row) == SubSeq(its, Len(row) + 1, Len(its))

(* layoutSquarified(items, x, y, width, height), pushing to acc.            *)
RECURSIVE LayoutSquarified(_, _, _, _, _, _, _)
LayoutSquarified(acc, its, x, y, width, height, padding) ==
  IF Len(acc.frames) >= MaxDepth THEN acc
  ELSE IF Len(its) = 0 THEN acc
  ELSE IF Len(its) = 1
       THEN PlaceSingle(Enter(acc, Frame(its, x, y, width, height, Len(acc.cells),
                                         FALSE, Zero, 0, Zero)),
                        its[1], x, y, width, height, padding)
  ELSE LET vertical == IsVertical(width, height)
           side == Side(vertical, width, height)
           grown == GrowRow(its, <<>>, Zero, 1, side)
           row == grown.row
           rowLength == RDiv(grown.rowArea, side)
           entered == Enter(acc, Frame(its, x, y, width, height, Len(acc.cells),
                                       vertical, side, Len(row), rowLength))
           placed == PlaceRow(entered, row, 1, Zero, x, y, rowLength, vertical, padding)
           remaining == Remaining(its, row)
           rest == Leftover(x, y, width, height, rowLength, vertical)
       IN IF Len(remaining) > 0
          THEN LayoutSquarified(placed, remaining, rest.x, rest.y, rest.width, rest.height, padding)
          ELSE placed

(***************************************************************************)
(* calculateLayout(items, containerWidth, containerHeight, padding).       *)
(* `absent` stands for a call whose items argument is null or undefined.   *)
(* The result holds the caller's array as the call leaves it (`items`),    *)
(* the returned list (`layouts`) and the cells (`cells`).                  *)
(***************************************************************************)
(* Mutant: normalizedSize is written to the caller's objects and the        *)
(* caller's array is sorted in place.                                       *)
NormalizedItemsInPlace(its, totalSize, totalArea) ==
  [caller |-> SortDesc(Normalize(its, totalSize, totalArea)),
   normalizedItems |-> SortDesc(Normalize(its, totalSize, totalArea))]

(* const normalizedItems = items.map(...).sort(...): map builds a new array *)
(* of new objects and sort reorders that new array.                         *)
NormalizedItems(its, totalSize, totalArea) ==
  [caller |-> its, normalizedItems |-> SortDesc(Normalize(its, totalSize, totalArea))]

(* const layouts = []                                                       *)
NewLayouts == NoLayouts

(* Mutant: the rectangles of the first pass are not cleared.                *)
KeepLayouts(acc) == [acc EXCEPT !.frames = <<>>]

(* layouts.length = 0                                                       *)
ClearLayouts(acc) == NoLayouts

(* Mutant: layouts is one array shared by all calls, neither created per    *)
(* call nor cleared.                                                        *)
LayoutPassesSharedLayouts(its, totalSize, containerWidth, containerHeight, padding) ==
  LET totalArea == RMul(R(containerWidth), R(containerHeight))
      n == NormalizedItems(its, totalSize, totalArea)
      shared == LayoutSquarified([layouts |-> layouts, cells |-> cells, frames |-> <<>>],
                                 n.normalizedItems, Zero, Zero,
                                 R(containerWidth), R(containerHeight), padding)
  IN [items |-> n.caller, layouts |-> shared.layouts, cells |-> shared.cells,
      frames |-> shared.frames]

(* The body of calculateLayout past its two guards.                         *)
LayoutPasses(its, totalSize, containerWidth, containerHeight, padding) ==
  LET totalArea == RMul(R(containerWidth), R(containerHeight))
      n == NormalizedItems(its, totalSize, totalArea)
      first == LayoutSquarified(NewLayouts, n.normalizedItems, Zero, Zero,
                                R(containerWidth), R(containerHeight), padding)
      cleared == ClearLayouts(first)
      second == LayoutSquarified(cleared, n.normalizedItems, Zero, Zero,
                                 R(containerWidth), R(containerHeight), padding)
  IN [items |-> n.caller, layouts |-> second.layouts, cells |-> second.cells,
      frames |-> second.frames]

Empty(its) == [items |-> its, layouts |-> <<>>, cells |-> <<>>, frames |-> <<>>]

(* Mutant: no guard on the total size.                                      *)
CalculateLayoutNoSumGuard(absent, its, containerWidth, containerHeight, padding) ==
  IF absent \/ Len(its) = 0 THEN Empty(its)
  ELSE LayoutPasses(its, SumSizes(its), containerWidth, containerHeight, padding)

CalculateLayout(absent, its, containerWidth, containerHeight, padding) ==
  IF absent \/ Len(its) = 0 THEN Empty(its)
  ELSE IF SumSizes(its) = 0 THEN Empty(its)
  ELSE LayoutPasses(its, SumSizes(its), containerWidth, containerHeight, padding)

(* Item lists with ids 1..n in order.                                       *)
ItemsOf(sizes) == [i \in 1..Len(sizes) |-> Item(i, sizes[i])]

PositiveLists == UNION {[1..n -> 1..MaxSize] : n \in 0..MaxItems}
ZeroLists == {[i \in 1..n |-> 0] : n \in 1..MaxItems}

(* The worked examples of the specification.                                *)
Scenarios ==
  { [items |-> ItemsOf(<<60, 30, 10>>), width |-> 300, height |-> 200, padding |-> 0],
    [items |-> ItemsOf(<<5>>), width |-> 200, height |-> 100, padding |-> 0],
    [items |-> ItemsOf(<<1, 1>>), width |-> 200, height |-> 100, padding |-> 0],
    [items |-> <<>>, width |-> 100, height |-> 100, padding |-> 3],
    [items |-> ItemsOf(<<0>>), width |-> 100, height |-> 100, padding |-> 3] }

Inputs ==
  { [items |-> ItemsOf(sizes), width |-> w, height |-> h, padding |-> p] :
      sizes \in PositiveLists \cup ZeroLists, w \in 1..MaxDim, h \in 1..MaxDim,
      p \in 0..MaxPad }
  \cup Scenarios

NoMemo == [set |-> FALSE]


(* const DEFAULT_WATCHLIST = { keywords: [], lastUpdated: null }            *)
EmptyWatchlist == [keywords |-> <<>>, lastUpdated |-> 0]

(* The watchlist module is not loaded.                                      *)
NoWatchlist ==
  /\ wlStorage = [kind |-> "absent", value |-> EmptyWatchlist]
  /\ DEFAULT_WATCHLIST = EmptyWatchlist
  /\ wlClock = 1
  /\ wlReturned = EmptyWatchlist
  /\ wlLast = "none"


(* export const DEFAULT_PREFERENCES = { filters, platforms, suggestions }   *)
OriginalPreferences ==
  [filters |-> [categories |-> <<>>, keywords |-> <<>>, excludeKeywords |-> <<>>],
   platforms |-> [spotify |-> TRUE, googleTrends |-> TRUE, tiktok |-> FALSE, instagram |-> FALSE],
   suggestions |-> [autoRefresh |-> FALSE, refreshInterval |-> 60]]

(* The preferences module is not loaded.                                    *)
NoPreferences ==
  /\ prefStorage = [kind |-> "absent", value |-> OriginalPreferences]
  /\ DEFAULT_PREFERENCES = OriginalPreferences
  /\ prefLast = "none"


(* The App is not mounted.                                                  *)
NoApp ==
  /\ appTrends = <<>>
  /\ editingTrend = <<>>
  /\ trendsStorage = [kind |-> "absent", value |-> <<>>]
  /\ history = <<>>
  /\ historyBefore = <<>>
  /\ appWeek = 1
  /\ nextId = 0
  /\ appLast = [handler |-> "none"]


(* No CategoryManager is mounted.                                           *)
NoManager ==
  /\ managed = <<>>
  /\ added = 0
  /\ handled = 0
  /\ cmLast = "none"

(* The aggregator module is not loaded.                                     *)
NoAggregator ==
  /\ now = 1
  /\ cachedData = 0
  /\ cacheTimestamp = 0
  /\ configured = {}
  /\ fetches = <<>>
  /\ clearedAfter = -1
  /\ lastEvent = [kind |-> "none"]

(* No Heatmap is mounted.                                                   *)
Unmounted ==
  /\ trends = <<>>
  /\ categories = <<>>
  /\ format = "feed"
  /\ rendered = FALSE
  /\ sections = <<>>
  /\ scaledBy = 0
  /\ layoutCalls = <<>>

(* The remembered call had the arguments (absent, its, w, h, p).            *)
MemoOf(absent, its, w, h, p) ==
  /\ memo.set
  /\ memo.absent = absent
  /\ memo.items = its
  /\ memo.width = w
  /\ memo.height = h
  /\ memo.padding = p

(* The observer counts the calls with other arguments since the memo.       *)
MemoAfterCall(absent, its) ==
  IF memo.set /\ ~MemoOf(absent, its, argWidth, argHeight, argPadding)
  THEN [memo EXCEPT !.others = @ + 1]
  ELSE memo

Init ==
  /\ NoManager
  /\ NoApp
  /\ NoPreferences
  /\ NoWatchlist
  /\ \E in \in Inputs :
       /\ items = in.items
       /\ argWidth = in.width
       /\ argHeight = in.height
       /\ argPadding = in.padding
  /\ pc = "idle"
  /\ layouts = <<>>
  /\ cells = <<>>
  /\ frames = <<>>
  /\ passed = [absent |-> FALSE, items |-> <<>>]
  /\ calls = 0
  /\ memo = NoMemo
  /\ Unmounted
  /\ NoAggregator

(* The caller calls calculateLayout(items, width, height, padding).         *)
Call ==
  /\ pc = "idle"
  /\ calls < MaxCalls
  /\ \E r \in {CalculateLayout(FALSE, items, argWidth, argHeight, argPadding)} :
       /\ items' = r.items
       /\ layouts' = r.layouts
       /\ cells' = r.cells
       /\ frames' = r.frames
  /\ passed' = [absent |-> FALSE, items |-> items]
  /\ pc' = "returned"
  /\ calls' = calls + 1
  /\ memo' = MemoAfterCall(FALSE, items)
  /\ UNCHANGED <<argWidth, argHeight, argPadding>>
  /\ UNCHANGED besideLayout

(* The caller calls calculateLayout(undefined, width, height, padding).     *)
CallWithoutItems ==
  /\ pc = "idle"
  /\ calls < MaxCalls
  /\ \E r \in {CalculateLayout(TRUE, <<>>, argWidth, argHeight, argPadding)} :
       /\ layouts' = r.layouts
       /\ cells' = r.cells
       /\ frames' = r.frames
  /\ passed' = [absent |-> TRUE, items |-> <<>>]
  /\ pc' = "returned"
  /\ calls' = calls + 1
  /\ memo' = MemoAfterCall(TRUE, <<>>)
  /\ UNCHANGED <<items, argWidth, argHeight, argPadding>>
  /\ UNCHANGED besideLayout

(* Sizes are all positive, or all zero (the degenerate list).               *)
Layoutable(its) ==
  \/ \A i \in 1..Len(its) : its[i].size > 0
  \/ \A i \in 1..Len(its) : its[i].size = 0

(* Between two calls the caller changes one input, or none.  A list mixing  *)
(* zero and positive sizes is not passed: on a zero-size item the code      *)
(* divides by zero (Infinity, NaN), which no property here is about.        *)
AddItem ==
  /\ pc = "returned" /\ calls < MaxCalls
  /\ Len(items) < MaxItems
  /\ \E s \in 0..MaxSize :
       /\ Layoutable(Append(items, Item(Len(items) + 1, s)))
       /\ items' = Append(items, Item(Len(items) + 1, s))
  /\ pc' = "idle"
  /\ UNCHANGED <<argWidth, argHeight, argPadding, layouts, cells, frames, passed, calls, memo>>
  /\ UNCHANGED besideLayout

(* The model removes the last item, which keeps the ids 1..n.               *)
RemoveItem ==
  /\ pc = "returned" /\ calls < MaxCalls
  /\ Len(items) > 0
  /\ items' = SubSeq(items, 1, Len(items) - 1)
  /\ pc' = "idle"
  /\ UNCHANGED <<argWidth, argHeight, argPadding, layouts, cells, frames, passed, calls, memo>>
  /\ UNCHANGED besideLayout

Resize ==
  /\ pc = "returned" /\ calls < MaxCalls
  /\ \E w \in 1..MaxDim, h \in 1..MaxDim :
       /\ (w = argWidth) # (h = argHeight)
       /\ argWidth' = w
       /\ argHeight' = h
  /\ pc' = "idle"
  /\ UNCHANGED <<items, argPadding, layouts, cells, frames, passed, calls, memo>>
  /\ UNCHANGED besideLayout

SetPadding ==
  /\ pc = "returned" /\ calls < MaxCalls
  /\ \E p \in 0..MaxPad : p # argPadding /\ argPadding' = p
  /\ pc' = "idle"
  /\ UNCHANGED <<items, argWidth, argHeight, layouts, cells, frames, passed, calls, memo>>
  /\ UNCHANGED besideLayout

Rerender ==
  /\ pc = "returned" /\ calls < MaxCalls
  /\ pc' = "idle"
  /\ UNCHANGED <<items, argWidth, argHeight, argPadding, layouts, cells, frames, passed, calls, memo>>
  /\ UNCHANGED besideLayout

(* Observer: remember the call that has just returned.                      *)
Remember ==
  /\ pc = "returned" /\ calls < MaxCalls
  /\ ~memo.set
  /\ memo' = [set |-> TRUE, absent |-> passed.absent, items |-> passed.items,
              width |-> argWidth, height |-> argHeight, padding |-> argPadding,
              layouts |-> layouts, taken |-> calls, others |-> 0]
  /\ UNCHANGED <<items, argWidth, argHeight, argPadding, pc, layouts, cells, frames, passed, calls>>
  /\ UNCHANGED besideLayout

(* One call on each input.                                                  *)
Next ==
  \/ Call
  \/ CallWithoutItems

Spec == Init /\ [][Next]_vars

(* A session: up to MaxCalls calls, the caller changing one input between   *)
(* two calls, or none.                                                      *)
SessionNext ==
  \/ Call
  \/ CallWithoutItems
  \/ AddItem
  \/ RemoveItem
  \/ Resize
  \/ SetPadding
  \/ Rerender
  \/ Remember

SessionSpec == Init /\ [][SessionNext]_vars

(***************************************************************************)
(* The Heatmap component (components/Heatmap): from its props it computes  *)
(* one section per enabled category that has trends, and calls             *)
(* calculateLayout once for every section.                                 *)
(***************************************************************************)
(* const dimensions = { feed: {1080, 1350}, story: {1080, 1920} };          *)
(* dimensions[format] || dimensions.feed                                    *)
Dimensions(fmt) ==
  IF fmt = "story" THEN [width |-> 1080, height |-> 1920]
  ELSE [width |-> 1080, height |-> 1350]

HeaderHeight(fmt) == IF fmt = "story" THEN 140 ELSE 120
FooterHeight(fmt) == IF fmt = "story" THEN 90 ELSE 80
ContentHeight(fmt) == Dimensions(fmt).height - HeaderHeight(fmt) - FooterHeight(fmt)
CategoryHeaderHeight == 50

(* A trend of a category; a category as the category manager stores it.     *)
(* A category without an enabled field counts as enabled (enabled !== false) *)
(* and is modelled with enabled = TRUE.                                     *)
Trend(id, size, category) == [Item(id, size) EXCEPT !.category = category]
Category(id, order, enabled) == [id |-> id, order |-> order, enabled |-> enabled]
IsEnabled(cat) == cat.enabled # FALSE

(* grouped[id]: the trends of category id, in the order of the trends prop. *)
Grouped(ts, id) == SelectSeq(ts, LAMBDA t : t.category = id)

(* Array.prototype.sort with (a, b) => a.order - b.order: stable, smallest  *)
(* order first.                                                             *)
RECURSIVE InsertByOrder(_, _)
InsertByOrder(sorted, cat) ==
  IF Len(sorted) = 0 THEN <<cat>>
  ELSE IF sorted[1].order <= cat.order
       THEN <<sorted[1]>> \o InsertByOrder(Tail(sorted), cat)
       ELSE <<cat>> \o sorted

RECURSIVE SortByOrder(_)
SortByOrder(cats) ==
  IF Len(cats) = 0 THEN <<>>
  ELSE InsertByOrder(SortByOrder(SubSeq(cats, 1, Len(cats) - 1)), cats[Len(cats)])

(* Mutant: disabled categories are not filtered out.                        *)
SortedCategoriesWithDisabled(ts, cats) ==
  SortByOrder(SelectSeq(cats, LAMBDA c : Len(Grouped(ts, c.id)) > 0))

SortedCategories(ts, cats) ==
  SortByOrder(SelectSeq(cats, LAMBDA c : IsEnabled(c) /\ Len(Grouped(ts, c.id)) > 0))

(* categories.find(c => c.id === id): the first category with that id.      *)
Found(cats, id) == {i \in 1..Len(cats) : cats[i].id = id}
Find(cats, id) == cats[CHOOSE i \in Found(cats, id) : \A j \in Found(cats, id) : i <= j]

(* Mutant: every trend counts for the scaling.                              *)
AllTrends(ts, cats) == ts

EnabledTrends(ts, cats) ==
  SelectSeq(ts, LAMBDA t : Found(cats, t.category) # {} /\ IsEnabled(Find(cats, t.category)))

(* sortedCategories.map(cat => ...), with currentY carried along.           *)
RECURSIVE SectionsFrom(_, _, _, _, _, _)
SectionsFrom(sorted, k, ts, totalSize, contentHeight, currentY) ==
  IF k > Len(sorted) THEN <<>>
  ELSE LET catItems == Grouped(ts, sorted[k].id)
           catSize == SumSizes(catItems)
           catHeight == RMul(RDiv(R(catSize), R(totalSize)), R(contentHeight))
           section == [category |-> sorted[k], items |-> catItems,
                       y |-> currentY, height |-> catHeight]
       IN <<section>> \o SectionsFrom(sorted, k + 1, ts, totalSize, contentHeight,
                                      RAdd(currentY, catHeight))

(* const totalSize = enabledTrends.reduce((sum, t) => sum + t.size, 0)      *)
TotalSize(ts, cats) == SumSizes(EnabledTrends(ts, cats))

Sections(ts, cats, fmt) ==
  SectionsFrom(SortedCategories(ts, cats), 1, ts, TotalSize(ts, cats),
               ContentHeight(fmt), R(HeaderHeight(fmt)))

(* sections.map: calculateLayout(items, width - 60, contentH, 6) with       *)
(* contentH = sectionHeight - categoryHeaderHeight.                         *)
LayoutCalls(secs, fmt) ==
  [i \in 1..Len(secs) |->
     [items |-> secs[i].items,
      width |-> R(Dimensions(fmt).width - 60),
      height |-> RSub(secs[i].height, R(CategoryHeaderHeight)),
      padding |-> 6]]

(* The props: the ids of the default categories, any order values and       *)
(* enabled flags; trends of any of these categories.                        *)
DefaultIds == <<"sounds", "creators", "aesthetics", "memes">>
CategoryIds == {DefaultIds[i] : i \in 1..MaxCategories}

(* Lists the category manager can produce: every id once (generateId).      *)
Injective(f) == \A i, j \in DOMAIN f : f[i] = f[j] => i = j

ManagedLists(n) ==
  { [i \in 1..n |-> Category(ids[i], orders[i], enabled[i])] :
      ids \in {f \in [1..n -> CategoryIds] : Injective(f)},
      orders \in [1..n -> 1..MaxCategories],
      enabled \in [1..n -> BOOLEAN] }

(* Lists read from storage (loadCategories parses whatever is stored) in    *)
(* which two categories have one id.                                        *)
DuplicateLists ==
  { <<Category(id, orders[1], enabled[1]), Category(id, orders[2], enabled[2])>> :
      id \in CategoryIds, orders \in [1..2 -> 1..MaxCategories],
      enabled \in [1..2 -> BOOLEAN] }

(* The sizes of the trends: the smallest, and the size the trend form       *)
(* starts with.                                                             *)
DefaultSize == 50
TrendSizes == {1, DefaultSize}

(* Lists of n trends, with ids 1..n in order.                                *)
TrendLists(n) ==
  { [i \in 1..n |-> Trend(i, sizes[i], of[i])] :
      sizes \in [1..n -> TrendSizes], of \in [1..n -> CategoryIds] }

(* The layout caller of Spec is idle.                                       *)
NoCaller ==
  /\ items = <<>>
  /\ argWidth = 1
  /\ argHeight = 1
  /\ argPadding = 0
  /\ pc = "idle"
  /\ layouts = <<>>
  /\ cells = <<>>
  /\ frames = <<>>
  /\ passed = [absent |-> FALSE, items |-> <<>>]
  /\ calls = 0
  /\ memo = NoMemo

HeatmapInit ==
  /\ NoManager
  /\ NoApp
  /\ NoPreferences
  /\ NoWatchlist
  /\ NoCaller
  /\ NoAggregator
  /\ \E n \in 0..MaxTrends : trends \in TrendLists(n)
  /\ \/ \E n \in 0..MaxCategories : categories \in ManagedLists(n)
     \/ categories \in DuplicateLists
  /\ format \in {"feed", "story"}
  /\ rendered = FALSE
  /\ sections = <<>>
  /\ scaledBy = 0
  /\ layoutCalls = <<>>

(* One render of Heatmap.                                                   *)
Render ==
  /\ ~rendered
  /\ \E secs \in {Sections(trends, categories, format)} :
       /\ sections' = secs
       /\ layoutCalls' = LayoutCalls(secs, format)
  /\ scaledBy' = TotalSize(trends, categories)
  /\ rendered' = TRUE
  /\ UNCHANGED <<trends, categories, format>>
  /\ UNCHANGED besideHeatmap

HeatmapNext == Render

HeatmapSpec == HeatmapInit /\ [][HeatmapNext]_vars

(***************************************************************************)
(* The trend aggregator (utils/aggregator.js).  Time is counted in minutes *)
(* and starts at 1, so that a timestamp is never the falsy 0.  Of the five *)
(* optional sources the model has one (the code of the five is the same    *)
(* but for the name); googleTrends is always fetched.  A results object is *)
(* identified by the number of the call that created it.                   *)
(***************************************************************************)
CACHE_DURATION == 5

OptionalSources == {"spotify"}
AllSources == OptionalSources \cup {"googleTrends"}

(* getPlatformStatus()                                                      *)
GetPlatformStatus(conf) == [s \in AllSources |-> s = "googleTrends" \/ s \in conf]

(* const results = { spotify: {...empty...}, ..., errors: [] }              *)
NewResults == [data |-> [s \in AllSources |-> "empty"], errors |-> <<>>]

(* Mutant: forceRefresh is not looked at.                                   *)
CacheHitIgnoringForce(forceRefresh, data, timestamp, t) ==
  /\ data # 0
  /\ timestamp # 0
  /\ t - timestamp < CACHE_DURATION

(* !forceRefresh && cachedData && cacheTimestamp &&                         *)
(* Date.now() - cacheTimestamp < CACHE_DURATION                             *)
CacheHit(forceRefresh, data, timestamp, t) ==
  /\ ~forceRefresh
  /\ data # 0
  /\ timestamp # 0
  /\ t - timestamp < CACHE_DURATION

(* The sources a call that misses the cache fetches from.                   *)
Fetched(conf) == {s \in AllSources : GetPlatformStatus(conf)[s]}

(* A call that returned from the cache; a call that fetches.                *)
HitCall(data) ==
  [hit |-> TRUE, pending |-> {}, called |-> {}, settled |-> [s \in AllSources |-> "none"],
   results |-> NewResults, returned |-> data]

MissCall(conf) ==
  [hit |-> FALSE, pending |-> Fetched(conf), called |-> Fetched(conf),
   settled |-> [s \in AllSources |-> IF s \in Fetched(conf) THEN "pending" ELSE "none"],
   results |-> NewResults, returned |-> 0]

(* .then((data) => { results[source] = data })                              *)
OnFulfilled(f, s) ==
  [f EXCEPT !.pending = @ \ {s}, !.settled[s] = "fulfilled", !.results.data[s] = "data"]

(* Mutant: a rejection is swallowed without an errors entry.                *)
OnRejectedSilently(f, s) ==
  [f EXCEPT !.pending = @ \ {s}, !.settled[s] = "rejected"]

(* .catch((e) => results.errors.push({ source, error: e.message }))         *)
OnRejected(f, s) ==
  [f EXCEPT !.pending = @ \ {s}, !.settled[s] = "rejected",
            !.results.errors = Append(@, [source |-> s, error |-> "message"])]

AggregatorInit ==
  /\ NoManager
  /\ NoApp
  /\ NoPreferences
  /\ NoWatchlist
  /\ NoCaller
  /\ Unmounted
  /\ now = 1
  /\ cachedData = 0
  /\ cacheTimestamp = 0
  /\ configured \in SUBSET OptionalSources
  /\ fetches = <<>>
  /\ clearedAfter = -1
  /\ lastEvent = [kind |-> "none"]

(* fetchAllTrending(forceRefresh), up to its await.                         *)
FetchAllTrending ==
  /\ Len(fetches) < MaxFetches
  /\ \E forceRefresh \in BOOLEAN :
       \E hit \in {CacheHit(forceRefresh, cachedData, cacheTimestamp, now)} :
         /\ fetches' = Append(fetches, IF hit THEN HitCall(cachedData) ELSE MissCall(configured))
         /\ lastEvent' = [kind |-> "call", call |-> Len(fetches) + 1,
                          forceRefresh |-> forceRefresh]
  /\ UNCHANGED <<now, cachedData, cacheTimestamp, configured, clearedAfter>>
  /\ UNCHANGED besideAggregator

(* One source's promise is fulfilled.                                       *)
Fulfil ==
  /\ \E i \in 1..Len(fetches) :
       \E s \in fetches[i].pending :
         fetches' = [fetches EXCEPT ![i] = OnFulfilled(@, s)]
  /\ lastEvent' = [kind |-> "settle"]
  /\ UNCHANGED <<now, cachedData, cacheTimestamp, configured, clearedAfter>>
  /\ UNCHANGED besideAggregator

(* One source's promise is rejected.                                        *)
Reject ==
  /\ \E i \in 1..Len(fetches) :
       \E s \in fetches[i].pending :
         fetches' = [fetches EXCEPT ![i] = OnRejected(@, s)]
  /\ lastEvent' = [kind |-> "settle"]
  /\ UNCHANGED <<now, cachedData, cacheTimestamp, configured, clearedAfter>>
  /\ UNCHANGED besideAggregator

(* await Promise.all(fetchPromises) resumes: the results are cached and     *)
(* returned.                                                                *)
Complete ==
  /\ \E i \in 1..Len(fetches) :
       /\ ~fetches[i].hit
       /\ fetches[i].returned = 0
       /\ fetches[i].pending = {}
       /\ cachedData' = i
       /\ cacheTimestamp' = now
       /\ fetches' = [fetches EXCEPT ![i].returned = i]
       /\ lastEvent' = [kind |-> "complete", call |-> i]
  /\ UNCHANGED <<now, configured, clearedAfter>>
  /\ UNCHANGED besideAggregator

(* clearCache()                                                             *)
ClearCache ==
  /\ cachedData' = 0
  /\ cacheTimestamp' = 0
  /\ clearedAfter' = Len(fetches)
  /\ lastEvent' = [kind |-> "clear"]
  /\ UNCHANGED <<now, configured, fetches>>
  /\ UNCHANGED besideAggregator

(* A minute passes.                                                         *)
Tick ==
  /\ now < MaxTime
  /\ now' = now + 1
  /\ lastEvent' = [kind |-> "tick"]
  /\ UNCHANGED <<cachedData, cacheTimestamp, configured, fetches, clearedAfter>>
  /\ UNCHANGED besideAggregator

AggregatorNext ==
  \/ FetchAllTrending
  \/ Fulfil
  \/ Reject
  \/ Complete
  \/ ClearCache
  \/ Tick

AggregatorSpec == AggregatorInit /\ [][AggregatorNext]_vars


(***************************************************************************)
(* The watchlist (utils/watchlist.js).  localStorage's entry is absent,    *)
(* unparsable, or the JSON of a watchlist; JSON.parse gives a fresh object *)
(* each time, while DEFAULT_WATCHLIST is one object of the module, handed  *)
(* out by reference.  An id is <<time, suffix>>: suffix 0 for              *)
(* Date.now().toString(36), k >= 1 for the random suffix of the k-th       *)
(* imported keyword.                                                       *)
(***************************************************************************)
Keywords == {"a", " A", "b"}
Blank == " "

(* String.prototype.toLowerCase and trim on the strings of the model.       *)
ToLowerCase(k) == CASE k = " A" -> " a" [] k = "A" -> "a" [] OTHER -> k
Trim(k) == CASE k = " A" -> "A" [] k = " a" -> "a" [] k = " " -> "" [] OTHER -> k

Keyword(id, keyword, t) ==
  [id |-> id, term |-> Trim(ToLowerCase(keyword)), displayTerm |-> Trim(keyword),
   addedAt |-> t, matchCount |-> 0, lastMatched |-> 0]

(* getWatchlist(): the parsed entry, or DEFAULT_WATCHLIST itself.            *)
GetWatchlist(stored, default) ==
  IF stored.kind = "json"
  THEN [ref |-> "parsed", value |-> stored.value]
  ELSE [ref |-> "default", value |-> default]

(* keywords.some((k) => k.term === normalized)                              *)
HasTerm(kws, term) == \E k \in 1..Len(kws) : kws[k].term = term

(* keywords.filter((k) => k.id !== id)                                      *)
RECURSIVE WithoutId(_, _)
WithoutId(kws, id) ==
  IF kws = <<>> THEN <<>>
  ELSE IF Head(kws).id = id THEN WithoutId(Tail(kws), id)
       ELSE <<Head(kws)>> \o WithoutId(Tail(kws), id)

(* The loop of importKeywords from the k-th keyword on.                     *)
RECURSIVE ImportInto(_, _, _, _)
ImportInto(kws, list, k, t) ==
  IF k > Len(list) THEN kws
  ELSE IF Trim(ToLowerCase(list[k])) # "" /\ ~HasTerm(kws, Trim(ToLowerCase(list[k])))
       THEN ImportInto(Append(kws, Keyword(<<t, k>>, list[k], t)), list, k + 1, t)
       ELSE ImportInto(kws, list, k + 1, t)

(* saveWatchlist(watchlist) and return watchlist, where watchlist is the    *)
(* object w with keywords kws.                                              *)
SaveWatchlist(w, kws) ==
  \E saved \in {[keywords |-> kws, lastUpdated |-> wlClock]} :
    /\ wlStorage' = [kind |-> "json", value |-> saved]
    /\ DEFAULT_WATCHLIST' = IF w.ref = "default" THEN saved ELSE DEFAULT_WATCHLIST
    /\ wlReturned' = saved

(* The watchlists a previous session may have stored.                       *)
StoredWatchlists ==
  {[kind |-> "absent", value |-> EmptyWatchlist],
   [kind |-> "unparsable", value |-> EmptyWatchlist],
   [kind |-> "json", value |-> EmptyWatchlist],
   [kind |-> "json", value |-> [keywords |-> <<Keyword(<<0, 0>>, "a", 0)>>, lastUpdated |-> 0]]}

WatchlistInit ==
  /\ NoManager
  /\ NoApp
  /\ NoPreferences
  /\ NoCaller
  /\ Unmounted
  /\ NoAggregator
  /\ wlStorage \in StoredWatchlists
  /\ DEFAULT_WATCHLIST = EmptyWatchlist
  /\ wlClock = 1
  /\ wlReturned = EmptyWatchlist
  /\ wlLast = "none"

(* addToWatchlist(keyword)                                                  *)
AddToWatchlist ==
  /\ \E keyword \in Keywords :
       \E w \in {GetWatchlist(wlStorage, DEFAULT_WATCHLIST)} :
         IF HasTerm(w.value.keywords, Trim(ToLowerCase(keyword)))
         THEN /\ wlReturned' = w.value
              /\ UNCHANGED <<wlStorage, DEFAULT_WATCHLIST>>
         ELSE SaveWatchlist(w, Append(w.value.keywords, Keyword(<<wlClock, 0>>, keyword, wlClock)))
  /\ wlLast' = "addToWatchlist"
  /\ UNCHANGED wlClock
  /\ UNCHANGED besideWatchlist

(* removeFromWatchlist(id)                                                  *)
RemoveFromWatchlist ==
  /\ \E w \in {GetWatchlist(wlStorage, DEFAULT_WATCHLIST)} :
       \E id \in {w.value.keywords[k].id : k \in 1..Len(w.value.keywords)} \cup {<<0, 1>>} :
         SaveWatchlist(w, WithoutId(w.value.keywords, id))
  /\ wlLast' = "removeFromWatchlist"
  /\ UNCHANGED wlClock
  /\ UNCHANGED besideWatchlist

(* updateMatchCount(id, count)                                              *)
UpdateMatchCount ==
  /\ \E w \in {GetWatchlist(wlStorage, DEFAULT_WATCHLIST)} :
       \E id \in {w.value.keywords[k].id : k \in 1..Len(w.value.keywords)} \cup {<<0, 1>>} :
         \E count \in 1..MaxCount :
           IF \E k \in 1..Len(w.value.keywords) : w.value.keywords[k].id = id
           THEN \E k \in 1..Len(w.value.keywords) :
                  /\ w.value.keywords[k].id = id
                  /\ \A j \in 1..(k - 1) : w.value.keywords[j].id # id
                  /\ SaveWatchlist(w, [w.value.keywords EXCEPT ![k].matchCount = count,
                                                               ![k].lastMatched = wlClock])
           ELSE /\ wlReturned' = w.value
                /\ UNCHANGED <<wlStorage, DEFAULT_WATCHLIST>>
  /\ wlLast' = "updateMatchCount"
  /\ UNCHANGED wlClock
  /\ UNCHANGED besideWatchlist

(* importKeywords(keywords)                                                 *)
ImportKeywords ==
  /\ \E list \in {<<k>> : k \in Keywords \cup {Blank}} \cup {<<"a", "b">>, <<" A", "a">>} :
       \E w \in {GetWatchlist(wlStorage, DEFAULT_WATCHLIST)} :
         SaveWatchlist(w, ImportInto(w.value.keywords, list, 1, wlClock))
  /\ wlLast' = "importKeywords"
  /\ UNCHANGED wlClock
  /\ UNCHANGED besideWatchlist

(* clearWatchlist(): saveWatchlist(DEFAULT_WATCHLIST); return it.            *)
ClearWatchlist ==
  /\ SaveWatchlist([ref |-> "default", value |-> DEFAULT_WATCHLIST], DEFAULT_WATCHLIST.keywords)
  /\ wlLast' = "clearWatchlist"
  /\ UNCHANGED wlClock
  /\ UNCHANGED besideWatchlist

(* A millisecond passes.                                                    *)
WatchlistTick ==
  /\ wlClock < MaxStamp
  /\ wlClock' = wlClock + 1
  /\ UNCHANGED <<wlStorage, DEFAULT_WATCHLIST, wlReturned, wlLast>>
  /\ UNCHANGED besideWatchlist

WatchlistNext ==
  \/ AddToWatchlist
  \/ RemoveFromWatchlist
  \/ UpdateMatchCount
  \/ ImportKeywords
  \/ ClearWatchlist
  \/ WatchlistTick

WatchlistSpec == WatchlistInit /\ [][WatchlistNext]_vars


(***************************************************************************)
(* The preferences.  localStorage's entry is absent, unparsable, the JSON  *)
(* "{}" of an object without keys, or the JSON of whole preferences.       *)
(* getPreferences() hands out DEFAULT_PREFERENCES itself when there is     *)
(* nothing to parse (ref "default"); from "{}" it builds a new object with *)
(* new filters, platforms and suggestions objects whose three arrays are   *)
(* still the arrays of DEFAULT_PREFERENCES.filters (ref "arrays"); from    *)
(* whole preferences everything is new (ref "parsed").                     *)
(***************************************************************************)
GetPreferences(stored, default) ==
  CASE stored.kind = "json" -> [ref |-> "parsed", value |-> stored.value]
    [] stored.kind = "empty object" -> [ref |-> "arrays", value |-> default]
    [] OTHER -> [ref |-> "default", value |-> default]

(* savePreferences(preferences)                                             *)
SavePreferences(value) == prefStorage' = [kind |-> "json", value |-> value]

(* array.includes(k)                                                        *)
Includes(array, k) == \E n \in 1..Len(array) : array[n] = k

(* The keywords, category lists, platforms and updates the calls are made   *)
(* with.                                                                    *)
PrefKeywords == {"a", "A"}
CategoryFilters == {<<>>, <<"sounds">>}
Platforms == {"spotify", "tiktok", "youtube"}
Updates ==
  {[key |-> "suggestions", value |-> [autoRefresh |-> TRUE]],
   [key |-> "platforms", value |-> [tiktok |-> TRUE]],
   [key |-> "filters", value |-> [keywords |-> <<"b">>]],
   [key |-> "none", value |-> [none |-> TRUE]]}

(* { ...object, ...update }                                                 *)
Merge(object, update) ==
  [k \in DOMAIN object |-> IF k \in DOMAIN update THEN update[k] ELSE object[k]]

(* The entries a previous session, or another program, may have stored.     *)
StoredPreferences ==
  {[kind |-> "absent", value |-> OriginalPreferences],
   [kind |-> "unparsable", value |-> OriginalPreferences],
   [kind |-> "empty object", value |-> OriginalPreferences],
   [kind |-> "json", value |-> OriginalPreferences],
   [kind |-> "json", value |-> [OriginalPreferences EXCEPT !.filters.keywords = <<"a">>,
                                                            !.platforms.tiktok = TRUE]]}

PreferencesInit ==
  /\ NoManager
  /\ NoApp
  /\ NoCaller
  /\ Unmounted
  /\ NoAggregator
  /\ NoWatchlist
  /\ prefStorage \in StoredPreferences
  /\ DEFAULT_PREFERENCES = OriginalPreferences
  /\ prefLast = "none"

(* addKeyword(keyword): the push is into the array of DEFAULT_PREFERENCES   *)
(* unless the preferences were parsed whole.                                *)
AddKeyword ==
  /\ \E keyword \in PrefKeywords :
       \E prefs \in {GetPreferences(prefStorage, DEFAULT_PREFERENCES)} :
         IF ~Includes(prefs.value.filters.keywords, ToLowerCase(keyword))
         THEN \E pushed \in {Append(prefs.value.filters.keywords, ToLowerCase(keyword))} :
                /\ DEFAULT_PREFERENCES' =
                     IF prefs.ref \in {"default", "arrays"}
                     THEN [DEFAULT_PREFERENCES EXCEPT !.filters.keywords = pushed]
                     ELSE DEFAULT_PREFERENCES
                /\ SavePreferences([prefs.value EXCEPT !.filters.keywords = pushed])
         ELSE UNCHANGED <<prefStorage, DEFAULT_PREFERENCES>>
  /\ prefLast' = "addKeyword"
  /\ UNCHANGED besidePreferences

(* addExcludeKeyword(keyword)                                               *)
AddExcludeKeyword ==
  /\ \E keyword \in PrefKeywords :
       \E prefs \in {GetPreferences(prefStorage, DEFAULT_PREFERENCES)} :
         IF ~Includes(prefs.value.filters.excludeKeywords, ToLowerCase(keyword))
         THEN \E pushed \in {Append(prefs.value.filters.excludeKeywords, ToLowerCase(keyword))} :
                /\ DEFAULT_PREFERENCES' =
                     IF prefs.ref \in {"default", "arrays"}
                     THEN [DEFAULT_PREFERENCES EXCEPT !.filters.excludeKeywords = pushed]
                     ELSE DEFAULT_PREFERENCES
                /\ SavePreferences([prefs.value EXCEPT !.filters.excludeKeywords = pushed])
         ELSE UNCHANGED <<prefStorage, DEFAULT_PREFERENCES>>
  /\ prefLast' = "addExcludeKeyword"
  /\ UNCHANGED besidePreferences

(* setCategoryFilters(categoryIds): the assignment is to the filters object *)
(* of DEFAULT_PREFERENCES when getPreferences() handed that out.            *)
SetCategoryFilters ==
  /\ \E categoryIds \in CategoryFilters :
       \E prefs \in {GetPreferences(prefStorage, DEFAULT_PREFERENCES)} :
         /\ DEFAULT_PREFERENCES' =
              IF prefs.ref = "default"
              THEN [DEFAULT_PREFERENCES EXCEPT !.filters.categories = categoryIds]
              ELSE DEFAULT_PREFERENCES
         /\ SavePreferences([prefs.value EXCEPT !.filters.categories = categoryIds])
  /\ prefLast' = "setCategoryFilters"
  /\ UNCHANGED besidePreferences

(* togglePlatform(platform, enabled)                                        *)
TogglePlatform ==
  /\ \E platform \in Platforms, enabled \in BOOLEAN :
       \E prefs \in {GetPreferences(prefStorage, DEFAULT_PREFERENCES)} :
         IF platform \in DOMAIN prefs.value.platforms
         THEN /\ DEFAULT_PREFERENCES' =
                   IF prefs.ref = "default"
                   THEN [DEFAULT_PREFERENCES EXCEPT !.platforms[platform] = enabled]
                   ELSE DEFAULT_PREFERENCES
              /\ SavePreferences([prefs.value EXCEPT !.platforms[platform] = enabled])
         ELSE UNCHANGED <<prefStorage, DEFAULT_PREFERENCES>>
  /\ prefLast' = "togglePlatform"
  /\ UNCHANGED besidePreferences

(* updatePreferences(updates): a new object, merged one level deep.         *)
UpdatePreferences ==
  /\ \E updates \in Updates :
       \E current \in {GetPreferences(prefStorage, DEFAULT_PREFERENCES).value} :
         SavePreferences(
           [k \in DOMAIN current |->
              IF k = updates.key THEN Merge(current[k], updates.value) ELSE current[k]])
  /\ prefLast' = "updatePreferences"
  /\ UNCHANGED DEFAULT_PREFERENCES
  /\ UNCHANGED besidePreferences

(* resetPreferences(): savePreferences(DEFAULT_PREFERENCES); return it.      *)
ResetPreferences ==
  /\ SavePreferences(DEFAULT_PREFERENCES)
  /\ prefLast' = "resetPreferences"
  /\ UNCHANGED DEFAULT_PREFERENCES
  /\ UNCHANGED besidePreferences

PreferencesNext ==
  \/ AddKeyword
  \/ AddExcludeKeyword
  \/ SetCategoryFilters
  \/ TogglePlatform
  \/ UpdatePreferences
  \/ ResetPreferences

PreferencesSpec == PreferencesInit /\ [][PreferencesNext]_vars


(***************************************************************************)
(* The App component (App.jsx) with utils/storage and utils/history.  A    *)
(* trend has the five fields a snapshot keeps and sourceUrl for those it   *)
(* drops; its category may be the string "undefined" for the value         *)
(* undefined, which JSON.stringify leaves out and a read of the parsed     *)
(* object gives back.  Ids are numbers handed out in order (generateId);   *)
(* weeks are numbered (getISOWeek().key).                                  *)
(***************************************************************************)
AppTrend(id, category, size, sourceUrl) ==
  [id |-> id, name |-> ToString(id), category |-> category, size |-> size, change |-> 0,
   sourceUrl |-> sourceUrl]

(* JSON.stringify of one object: a key whose value is undefined is left out *)
Stringify(t) ==
  IF t.category = "undefined" THEN [k \in DOMAIN t \ {"category"} |-> t[k]] ELSE t

(* JSON.parse of one object, read with the keys in fields: a key that is    *)
(* not there reads as undefined.                                            *)
Parse(j, fields) ==
  [k \in fields |-> IF k \in DOMAIN j THEN j[k] ELSE "undefined"]

TrendFields == {"id", "name", "category", "size", "change", "sourceUrl"}
SnapshotFields == {"id", "name", "category", "size", "change"}

StringifyAll(list) == [k \in 1..Len(list) |-> Stringify(list[k])]
ParseAll(json, fields) == [k \in 1..Len(json) |-> Parse(json[k], fields)]

(* trends.map((t) => ({ id, name, category, size, change }))                *)
SnapshotOf(list) == [k \in 1..Len(list) |-> [f \in SnapshotFields |-> list[k][f]]]

(* Mutant: an edit adds the trend at the end.                               *)
ReplaceByAppending(list, trend) == Append(list, trend)

(* trends.map((t) => (t.id === trend.id ? trend : t))                       *)
ReplaceById(list, trend) ==
  [k \in 1..Len(list) |-> IF list[k].id = trend.id THEN trend ELSE list[k]]

(* trends.filter((t) => t.id !== id)                                        *)
RECURSIVE WithoutTrend(_, _)
WithoutTrend(list, id) ==
  IF list = <<>> THEN <<>>
  ELSE IF Head(list).id = id THEN WithoutTrend(Tail(list), id)
       ELSE <<Head(list)>> \o WithoutTrend(Tail(list), id)

(* saveTrends(updated)                                                      *)
SaveTrends(updated) == trendsStorage' = [kind |-> "json", value |-> StringifyAll(updated)]

(* saveWeeklySnapshot(updated): the entry of the current week is replaced.  *)
SaveWeeklySnapshot(updated) ==
  history' =
    [w \in DOMAIN history \cup {appWeek} |->
       IF w = appWeek
       THEN [trends |-> StringifyAll(SnapshotOf(updated)), timestamp |-> appWeek]
       ELSE history[w]]

(* DEFAULT_TRENDS, two of the ten.                                          *)
DEFAULT_TRENDS == <<AppTrend(1, "sounds", DefaultSize, ""), AppTrend(2, "creators", 1, "")>>

(* getTrends()                                                              *)
GetTrends(stored) ==
  IF stored.kind = "json" THEN ParseAll(stored.value, TrendFields) ELSE DEFAULT_TRENDS

(* The App is mounted: useEffect has loaded the trends from a storage that  *)
(* is empty, or holds what an earlier session saved.                        *)
AppInit ==
  /\ NoManager
  /\ NoCaller
  /\ Unmounted
  /\ NoAggregator
  /\ NoWatchlist
  /\ NoPreferences
  /\ trendsStorage \in {[kind |-> "absent", value |-> <<>>],
                        [kind |-> "unparsable", value |-> <<>>],
                        [kind |-> "json", value |-> <<>>],
                        [kind |-> "json", value |-> StringifyAll(DEFAULT_TRENDS)]}
  /\ appTrends = GetTrends(trendsStorage)
  /\ editingTrend = <<>>
  /\ history = <<>>
  /\ historyBefore = <<>>
  /\ appWeek = 1
  /\ nextId = 2
  /\ appLast = [handler |-> "none"]

(* handleTrendClick(trend)                                                  *)
HandleTrendClick ==
  /\ \E k \in 1..Len(appTrends) : editingTrend' = <<appTrends[k]>>
  /\ appLast' = [handler |-> "handleTrendClick"]
  /\ UNCHANGED <<appTrends, trendsStorage, history, historyBefore, appWeek, nextId>>
  /\ UNCHANGED besideApp

(* The form is cancelled, or opened for a new trend, or a link was          *)
(* imported into it: setEditingTrend(null).                                 *)
StopEditing ==
  /\ editingTrend # <<>>
  /\ editingTrend' = <<>>
  /\ appLast' = [handler |-> "onCancel"]
  /\ UNCHANGED <<appTrends, trendsStorage, history, historyBefore, appWeek, nextId>>
  /\ UNCHANGED besideApp

(* handleSaveTrend(trend), with TrendForm's id: trend?.id || generateId()   *)
HandleSaveTrend ==
  /\ editingTrend # <<>> \/ nextId < MaxIds
  /\ \E size \in TrendSizes :
       \E trend \in {AppTrend(IF editingTrend # <<>> THEN editingTrend[1].id ELSE nextId + 1,
                              "sounds", size, "")} :
         \E updated \in {IF editingTrend # <<>> THEN ReplaceById(appTrends, trend)
                                                 ELSE Append(appTrends, trend)} :
           /\ appTrends' = updated
           /\ SaveTrends(updated)
           /\ SaveWeeklySnapshot(updated)
           /\ appLast' = [handler |-> IF editingTrend # <<>> THEN "edit" ELSE "add",
                          before |-> appTrends, trend |-> trend]
  /\ nextId' = IF editingTrend # <<>> THEN nextId ELSE nextId + 1
  /\ editingTrend' = <<>>
  /\ historyBefore' = history
  /\ UNCHANGED appWeek
  /\ UNCHANGED besideApp

(* handleDeleteTrend(id), which the form offers for the trend being edited  *)
HandleDeleteTrend ==
  /\ editingTrend # <<>>
  /\ \E updated \in {WithoutTrend(appTrends, editingTrend[1].id)} :
       /\ appTrends' = updated
       /\ SaveTrends(updated)
  /\ appLast' = [handler |-> "delete", before |-> appTrends, trend |-> editingTrend[1]]
  /\ editingTrend' = <<>>
  /\ historyBefore' = history
  /\ UNCHANGED <<history, appWeek, nextId>>
  /\ UNCHANGED besideApp

(* handleScreenshotImport(data): the category is undefined when none was    *)
(* suggested and there are no categories.                                   *)
HandleScreenshotImport ==
  /\ nextId < MaxIds
  /\ \E category \in {"sounds", "undefined"} :
       \E trend \in {AppTrend(nextId + 1, category, DefaultSize, "url")} :
         \E updated \in {Append(appTrends, trend)} :
           /\ appTrends' = updated
           /\ SaveTrends(updated)
           /\ SaveWeeklySnapshot(updated)
           /\ appLast' = [handler |-> "screenshot", before |-> appTrends, trend |-> trend]
  /\ nextId' = nextId + 1
  /\ historyBefore' = history
  /\ UNCHANGED <<editingTrend, appWeek>>
  /\ UNCHANGED besideApp

(* handleAddFromSuggestion(suggestionData)                                  *)
HandleAddFromSuggestion ==
  /\ nextId < MaxIds
  /\ \E size \in TrendSizes :
       \E trend \in {AppTrend(nextId + 1, "memes", size, "url")} :
         \E updated \in {Append(appTrends, trend)} :
           /\ appTrends' = updated
           /\ SaveTrends(updated)
           /\ SaveWeeklySnapshot(updated)
           /\ appLast' = [handler |-> "suggestion", before |-> appTrends, trend |-> trend]
  /\ nextId' = nextId + 1
  /\ historyBefore' = history
  /\ UNCHANGED <<editingTrend, appWeek>>
  /\ UNCHANGED besideApp

(* The next ISO week begins.                                                *)
WeekPasses ==
  /\ appWeek < MaxWeek
  /\ appWeek' = appWeek + 1
  /\ appLast' = [handler |-> "none"]
  /\ UNCHANGED <<appTrends, editingTrend, trendsStorage, history, historyBefore, nextId>>
  /\ UNCHANGED besideApp

AppNext ==
  \/ HandleTrendClick
  \/ StopEditing
  \/ HandleSaveTrend
  \/ HandleDeleteTrend
  \/ HandleScreenshotImport
  \/ HandleAddFromSuggestion
  \/ WeekPasses

AppSpec == AppInit /\ [][AppNext]_vars


(***************************************************************************)
(* The CategoryManager (components/CategoryManager.jsx).  Every handler    *)
(* hands the new list to onSave, App's handleCategoriesSave, which sets    *)
(* and stores it; the next handler sees it as the categories prop.  A      *)
(* category without the enabled key is one with enabled TRUE.              *)
(***************************************************************************)
ManagedCategory(id, label, order, enabled) ==
  [id |-> id, label |-> label, order |-> order, enabled |-> enabled]

DEFAULT_CATEGORIES ==
  <<ManagedCategory("sounds", "SOUNDS", 1, TRUE),
    ManagedCategory("creators", "CREATORS", 2, TRUE),
    ManagedCategory("aesthetics", "AESTHETICS", 3, TRUE),
    ManagedCategory("memes", "MEMES", 4, TRUE)>>

(* String.prototype.toUpperCase on the labels of the model.                 *)
ToUpperCase(label) == CASE label = "new" -> "NEW" [] label = "hot" -> "HOT" [] OTHER -> label

(* generateId(): the n-th id.                                               *)
GeneratedId(n) == "id" \o ToString(n)

(* categories.filter((cat) => cat.id !== id)                                *)
RECURSIVE WithoutCategory(_, _)
WithoutCategory(cats, id) ==
  IF cats = <<>> THEN <<>>
  ELSE IF Head(cats).id = id THEN WithoutCategory(Tail(cats), id)
       ELSE <<Head(cats)>> \o WithoutCategory(Tail(cats), id)

(* The two entries at index and swapIndex change places, then every entry   *)
(* gets its position as its order.                                          *)
Reordered(cats, index, swapIndex) ==
  [i \in 1..Len(cats) |->
     [(IF i = index THEN cats[swapIndex] ELSE IF i = swapIndex THEN cats[index] ELSE cats[i])
        EXCEPT !.order = i]]

ManagerInit ==
  /\ NoCaller
  /\ Unmounted
  /\ NoAggregator
  /\ NoWatchlist
  /\ NoPreferences
  /\ NoApp
  /\ managed = DEFAULT_CATEGORIES
  /\ added = 0
  /\ handled = 0
  /\ cmLast = "none"

(* handleToggle(id)                                                         *)
HandleToggle ==
  /\ \E k \in 1..Len(managed) :
       managed' = [i \in 1..Len(managed) |->
                     IF managed[i].id = managed[k].id
                     THEN [managed[i] EXCEPT !.enabled = IF managed[i].enabled = FALSE
                                                          THEN TRUE ELSE FALSE]
                     ELSE managed[i]]
  /\ cmLast' = "handleToggle"
  /\ handled < MaxHandled
  /\ handled' = handled + 1
  /\ UNCHANGED added
  /\ UNCHANGED besideManager

(* handleAdd() with a label that is not blank                               *)
HandleAdd ==
  /\ managed' = Append(managed, ManagedCategory(GeneratedId(added + 1), ToUpperCase("new"),
                                                 Len(managed) + 1, TRUE))
  /\ added' = added + 1
  /\ handled < MaxHandled
  /\ handled' = handled + 1
  /\ cmLast' = "handleAdd"
  /\ UNCHANGED besideManager

(* handleUpdate(id, label)                                                  *)
HandleUpdate ==
  /\ \E k \in 1..Len(managed) :
       managed' = [i \in 1..Len(managed) |->
                     IF managed[i].id = managed[k].id
                     THEN [managed[i] EXCEPT !.label = ToUpperCase("hot")]
                     ELSE managed[i]]
  /\ cmLast' = "handleUpdate"
  /\ handled < MaxHandled
  /\ handled' = handled + 1
  /\ UNCHANGED added
  /\ UNCHANGED besideManager

(* handleDelete(id)                                                         *)
HandleDelete ==
  /\ \E k \in 1..Len(managed) : managed' = WithoutCategory(managed, managed[k].id)
  /\ cmLast' = "handleDelete"
  /\ handled < MaxHandled
  /\ handled' = handled + 1
  /\ UNCHANGED added
  /\ UNCHANGED besideManager

(* handleReorder(id, direction): nothing is saved at the ends of the list.  *)
HandleReorder ==
  /\ \E index \in 1..Len(managed), direction \in {"up", "down"} :
       IF (direction = "up" /\ index = 1) \/ (direction = "down" /\ index = Len(managed))
       THEN UNCHANGED managed
       ELSE managed' = Reordered(managed, index, IF direction = "up" THEN index - 1 ELSE index + 1)
  /\ cmLast' = "handleReorder"
  /\ handled < MaxHandled
  /\ handled' = handled + 1
  /\ UNCHANGED added
  /\ UNCHANGED besideManager

ManagerNext ==
  \/ HandleToggle
  \/ HandleAdd
  \/ HandleUpdate
  \/ HandleDelete
  \/ HandleReorder

ManagerSpec == ManagerInit /\ [][ManagerNext]_vars

(***************************************************************************)
(* Vocabulary of the properties.                                           *)
(***************************************************************************)
Returned == pc = "returned"

(* The last call received a non-empty array of positive-size items.         *)
PositiveCall ==
  /\ Returned
  /\ ~passed.absent
  /\ Len(passed.items) > 0
  /\ \A i \in 1..Len(passed.items) : passed.items[i].size > 0

ContainerArea == R(argWidth * argHeight)
HalfPadding == RDiv(R(argPadding), R(2))

PaddedArea(rect) == RMul(RAdd(rect.width, R(argPadding)), RAdd(rect.height, R(argPadding)))
RectArea(rect) == RMul(rect.width, rect.height)

RECURSIVE SumPaddedAreas(_)
SumPaddedAreas(rects) ==
  IF Len(rects) = 0 THEN Zero
  ELSE RAdd(PaddedArea(rects[1]), SumPaddedAreas(Tail(rects)))

RECURSIVE SumAreas(_)
SumAreas(rects) ==
  IF Len(rects) = 0 THEN Zero
  ELSE RAdd(RectArea(rects[1]), SumAreas(Tail(rects)))

PaddedAreaSum == SumPaddedAreas(layouts)

(* No cell is narrower or shorter than the padding: nothing is clamped to 0. *)
NoCellBelowPadding ==
  \A i \in 1..Len(cells) :
    RGe(cells[i].width, R(argPadding)) /\ RGe(cells[i].height, R(argPadding))

(* Two rectangles share positive area.                                      *)
Overlap(a, b) ==
  /\ RLt(RMax(a.x, b.x), RMin(RAdd(a.x, a.width), RAdd(b.x, b.width)))
  /\ RLt(RMax(a.y, b.y), RMin(RAdd(a.y, a.height), RAdd(b.y, b.height)))

NoTwoOverlap(rects) ==
  \A i, j \in 1..Len(rects) : i < j => ~Overlap(rects[i], rects[j])

Inside(rect) ==
  /\ RGe(rect.x, Zero)
  /\ RGe(rect.y, Zero)
  /\ RLe(RAdd(rect.x, rect.width), R(argWidth))
  /\ RLe(RAdd(rect.y, rect.height), R(argHeight))

(***************************************************************************)
(* C1 (as stated): after every call with a non-empty list of positive-size *)
(* items, the sum over the returned rectangles of                          *)
(* (width + padding) * (height + padding) equals                           *)
(* containerWidth * containerHeight, for any padding >= 0.                 *)
(***************************************************************************)
C1_AreaConservation_AnyPadding ==
  PositiveCall => PaddedAreaSum = ContainerArea

(***************************************************************************)
(* C1 (amended): after every call with a non-empty list of positive-size   *)
(* items, the sum of (width + padding) * (height + padding) over the       *)
(* returned rectangles is at least containerWidth * containerHeight, and   *)
(* equals it exactly when no cell is narrower or shorter than the padding  *)
(* (no emitted dimension is clamped to 0).                                 *)
(***************************************************************************)
C1_AreaConservation ==
  PositiveCall =>
    /\ RGe(PaddedAreaSum, ContainerArea)
    /\ (NoCellBelowPadding <=> PaddedAreaSum = ContainerArea)

C1_Witness ==
  /\ PositiveCall
  /\ argPadding > 0
  /\ Len(layouts) >= 2
  /\ NoCellBelowPadding
  /\ PaddedAreaSum = ContainerArea

(***************************************************************************)
(* C2: after every call with padding > 0 and positive-size items, no two   *)
(* returned rectangles share positive area.                                *)
(***************************************************************************)
C2_NonOverlap ==
  (PositiveCall /\ argPadding > 0) => NoTwoOverlap(layouts)

C2_Witness ==
  /\ PositiveCall
  /\ argPadding > 0
  /\ Len(layouts) = 3
  /\ \A i \in 1..3 : RectArea(layouts[i]) # Zero

(***************************************************************************)
(* C3 (as stated): after every call with positive-size items, every        *)
(* returned rectangle has x >= 0, y >= 0, x + width <= containerWidth and  *)
(* y + height <= containerHeight, for any padding >= 0.                    *)
(***************************************************************************)
C3_Containment_AnyPadding ==
  PositiveCall => \A i \in 1..Len(layouts) : Inside(layouts[i])

(***************************************************************************)
(* C3 (amended): after every call with positive-size items, every returned *)
(* rectangle has x >= 0 and y >= 0; x + width <= containerWidth holds      *)
(* whenever its cell is at least padding / 2 wide, and                     *)
(* y + height <= containerHeight whenever its cell is at least padding / 2 *)
(* high (so always for padding 0 and for every rectangle of positive width *)
(* and height); a rectangle of a narrower cell has width 0 and ends less   *)
(* than padding / 2 beyond the container's edge.                           *)
(***************************************************************************)
C3_Containment ==
  PositiveCall =>
    \A i \in 1..Len(layouts) :
      LET r == layouts[i]
          c == cells[i]
      IN /\ RGe(r.x, Zero)
         /\ RGe(r.y, Zero)
         /\ RGe(c.width, HalfPadding) => RLe(RAdd(r.x, r.width), R(argWidth))
         /\ RGe(c.height, HalfPadding) => RLe(RAdd(r.y, r.height), R(argHeight))
         /\ RLt(c.width, HalfPadding) =>
              r.width = Zero /\ RLt(r.x, RAdd(R(argWidth), HalfPadding))
         /\ RLt(c.height, HalfPadding) =>
              r.height = Zero /\ RLt(r.y, RAdd(R(argHeight), HalfPadding))

C3_Witness ==
  /\ PositiveCall
  /\ argPadding > 0
  /\ \E i \in 1..Len(layouts) :
       /\ RLt(cells[i].width, HalfPadding)
       /\ layouts[i].width = Zero
       /\ ~Inside(layouts[i])
  /\ \E i \in 1..Len(layouts) :
       /\ RGe(cells[i].width, HalfPadding)
       /\ RGe(cells[i].height, HalfPadding)
       /\ Inside(layouts[i])

(***************************************************************************)
(* C4: after every call with positive-size items, the cells allotted to    *)
(* any two items a, b (their areas before the padding inset) satisfy       *)
(* area(a) * size(b) = area(b) * size(a), and every cell's area equals     *)
(* (size / totalSize) * containerWidth * containerHeight.                  *)
(***************************************************************************)
CellArea(i) == RMul(cells[i].width, cells[i].height)

C4_Proportionality ==
  PositiveCall =>
    /\ Len(cells) = Len(layouts)
    /\ \A i \in 1..Len(layouts) :
         /\ cells[i].id = layouts[i].id
         /\ CellArea(i) =
              RMul(RDiv(R(layouts[i].size), R(SumSizes(passed.items))), ContainerArea)
    /\ \A i, j \in 1..Len(layouts) :
         RMul(CellArea(i), R(layouts[j].size)) = RMul(CellArea(j), R(layouts[i].size))

C4_Witness ==
  /\ PositiveCall
  /\ Len(layouts) = 3
  /\ layouts[1].size # layouts[3].size
  /\ CellArea(1) # CellArea(3)
  /\ RMul(CellArea(1), R(layouts[3].size)) = RMul(CellArea(3), R(layouts[1].size))

(***************************************************************************)
(* C5: after every call with padding 0 and positive-size items the         *)
(* returned rectangles tile the container: each lies inside it, no two     *)
(* overlap, and their areas sum to containerWidth * containerHeight (so    *)
(* there is no gap); items of size 60, 30 and 10 in a 300x200 rectangle    *)
(* get areas 36000, 18000 and 6000.                                        *)
(***************************************************************************)
IsScenario603010 ==
  /\ passed.items = ItemsOf(<<60, 30, 10>>)
  /\ argWidth = 300
  /\ argHeight = 200

C5_ExactTiling ==
  (PositiveCall /\ argPadding = 0) =>
    /\ \A i \in 1..Len(layouts) : Inside(layouts[i])
    /\ NoTwoOverlap(layouts)
    /\ SumAreas(layouts) = ContainerArea
    /\ IsScenario603010 =>
         /\ Len(layouts) = 3
         /\ \A i \in 1..3 :
              RectArea(layouts[i]) =
                R(CASE layouts[i].id = 1 -> 36000
                    [] layouts[i].id = 2 -> 18000
                    [] OTHER -> 6000)
         /\ {layouts[i].id : i \in 1..3} = {1, 2, 3}

C5_Witness ==
  /\ PositiveCall
  /\ argPadding = 0
  /\ IsScenario603010
  /\ SumAreas(layouts) = R(60000)

(***************************************************************************)
(* C6: a call returns the empty list whenever items is absent or empty or  *)
(* the item sizes sum to 0, for any width, height and padding.             *)
(***************************************************************************)
DegenerateCall ==
  /\ Returned
  /\ \/ passed.absent
     \/ Len(passed.items) = 0
     \/ SumSizes(passed.items) = 0

C6_DegenerateInput ==
  DegenerateCall => layouts = <<>>

C6_Witness ==
  /\ DegenerateCall
  /\ ~passed.absent
  /\ Len(passed.items) >= 2
  /\ SumSizes(passed.items) = 0
  /\ layouts = <<>>

(***************************************************************************)
(* C7: a call with exactly one positive-size item returns exactly one      *)
(* rectangle, the whole container minus padding: x = padding / 2,          *)
(* y = padding / 2, width = max(containerWidth - padding, 0),              *)
(* height = max(containerHeight - padding, 0).                             *)
(***************************************************************************)
C7_SingleItem ==
  (PositiveCall /\ Len(passed.items) = 1) =>
    /\ Len(layouts) = 1
    /\ layouts[1].id = passed.items[1].id
    /\ layouts[1].x = HalfPadding
    /\ layouts[1].y = HalfPadding
    /\ layouts[1].width = R(IF argWidth - argPadding > 0 THEN argWidth - argPadding ELSE 0)
    /\ layouts[1].height = R(IF argHeight - argPadding > 0 THEN argHeight - argPadding ELSE 0)

C7_Witness ==
  /\ PositiveCall
  /\ passed.items = ItemsOf(<<5>>)
  /\ argWidth = 200 /\ argHeight = 100 /\ argPadding = 0
  /\ layouts[1].x = Zero /\ layouts[1].y = Zero
  /\ layouts[1].width = R(200) /\ layouts[1].height = R(100)

(***************************************************************************)
(* C8: a call with two items of equal size and padding 0 cuts the longer   *)
(* side of the container in half: two W/2 x H rectangles side by side when *)
(* W > H, two W x H/2 rectangles one above the other when W < H; the       *)
(* halves are at least as square as those of the other cut.                *)
(***************************************************************************)
Aspect(w, h) == RMax(RDiv(w, h), RDiv(h, w))
Half(n) == RDiv(R(n), R(2))

TwoEqualCall ==
  /\ PositiveCall
  /\ argPadding = 0
  /\ Len(passed.items) = 2
  /\ passed.items[1].size = passed.items[2].size

C8_TwoEqualItems ==
  TwoEqualCall =>
    /\ Len(layouts) = 2
    /\ argWidth > argHeight =>
         /\ \A i \in 1..2 : layouts[i].width = Half(argWidth) /\ layouts[i].height = R(argHeight)
         /\ layouts[1].x = Zero /\ layouts[1].y = Zero
         /\ layouts[2].x = Half(argWidth) /\ layouts[2].y = Zero
         /\ RLe(Aspect(layouts[1].width, layouts[1].height), Aspect(R(argWidth), Half(argHeight)))
    /\ argWidth < argHeight =>
         /\ \A i \in 1..2 : layouts[i].width = R(argWidth) /\ layouts[i].height = Half(argHeight)
         /\ layouts[1].x = Zero /\ layouts[1].y = Zero
         /\ layouts[2].x = Zero /\ layouts[2].y = Half(argHeight)
         /\ RLe(Aspect(layouts[1].width, layouts[1].height), Aspect(Half(argWidth), R(argHeight)))

C8_Witness ==
  /\ TwoEqualCall
  /\ argWidth = 200 /\ argHeight = 100
  /\ \A i \in 1..2 : layouts[i].width = R(100) /\ layouts[i].height = R(100)

C10_NoInputMutation ==
  (Returned /\ ~passed.absent) =>
    /\ Len(items) = Len(passed.items)
    /\ \A i \in 1..Len(items) :
         /\ DOMAIN items[i] = DOMAIN passed.items[i]
         /\ \A f \in DOMAIN items[i] : items[i][f] = passed.items[i][f]

(* The call had to reorder its own copy: the input was not sorted.          *)
C10_Witness ==
  /\ PositiveCall
  /\ Len(layouts) = 3
  /\ layouts[1].id # items[1].id
  /\ items = passed.items
  /\ "normalizedSize" \notin DOMAIN items[1]
  /\ "normalizedSize" \in DOMAIN layouts[1]

(***************************************************************************)
(* C11: after every call with positive-size items, every returned          *)
(* rectangle carries every field of its input item (id, name, size,        *)
(* change, category) with the value the item has; beside them it has only  *)
(* the fields the engine sets: x, y, width, height and normalizedSize.     *)
(***************************************************************************)
EngineFields == {"x", "y", "width", "height", "normalizedSize"}

(* The input item a rectangle was made for.                                 *)
ItemOf(rect) == CHOOSE it \in {passed.items[i] : i \in 1..Len(passed.items)} : it.id = rect.id

C11_MetadataPassThrough ==
  PositiveCall =>
    \A k \in 1..Len(layouts) :
      /\ \E i \in 1..Len(passed.items) : passed.items[i].id = layouts[k].id
      /\ \A f \in DOMAIN ItemOf(layouts[k]) :
           f \in DOMAIN layouts[k] /\ layouts[k][f] = ItemOf(layouts[k])[f]
      /\ DOMAIN layouts[k] = (DOMAIN ItemOf(layouts[k])) \cup EngineFields

(* The list was reordered and the fields followed their item.               *)
C11_Witness ==
  /\ PositiveCall
  /\ Len(layouts) = 3
  /\ layouts[1].id = 3
  /\ layouts[1].name = passed.items[3].name
  /\ layouts[1].change = passed.items[3].change
  /\ layouts[1].name # passed.items[1].name

(***************************************************************************)
(* C12: after every call with positive-size items, every returned          *)
(* rectangle is its cell (cx, cy, cw, ch) emitted as x = cx + padding / 2, *)
(* y = cy + padding / 2, width = max(cw - padding, 0) and                  *)
(* height = max(ch - padding, 0); no width or height is negative.          *)
(***************************************************************************)
C12_PaddingEmission ==
  PositiveCall =>
    /\ Len(cells) = Len(layouts)
    /\ \A i \in 1..Len(layouts) :
         LET r == layouts[i]
             c == cells[i]
         IN /\ c.id = r.id
            /\ r.x = RAdd(c.x, HalfPadding)
            /\ r.y = RAdd(c.y, HalfPadding)
            /\ r.width = (IF RLt(c.width, R(argPadding)) THEN Zero
                          ELSE RSub(c.width, R(argPadding)))
            /\ r.height = (IF RLt(c.height, R(argPadding)) THEN Zero
                           ELSE RSub(c.height, R(argPadding)))
            /\ RGe(r.width, Zero)
            /\ RGe(r.height, Zero)

(* One rectangle is clamped to width or height 0, another is not clamped.   *)
C12_Witness ==
  /\ PositiveCall
  /\ argPadding > 0
  /\ Len(layouts) >= 3
  /\ \E i \in 1..Len(layouts) :
       /\ RLt(cells[i].height, R(argPadding))
       /\ layouts[i].height = Zero
  /\ \E i \in 1..Len(layouts) :
       /\ RLt(R(argPadding), cells[i].width)
       /\ RLt(R(argPadding), cells[i].height)
       /\ layouts[i].width = RSub(cells[i].width, R(argPadding))
       /\ RLt(Zero, layouts[i].height)

(***************************************************************************)
(* C13: every call with positive-size items terminates: every invocation   *)
(* of layoutSquarified closes a row of at least one item, so each nested   *)
(* invocation receives strictly fewer items than its caller (the caller's  *)
(* items less its row), the nesting is at most n deep for n items, and the *)
(* last invocation places all the items it received.                       *)
(***************************************************************************)
Count(k) == Len(frames[k].items)

(* The number of items the k-th invocation places itself.                   *)
Placed(k) == IF Count(k) = 1 THEN 1 ELSE frames[k].row

C13_Termination ==
  PositiveCall =>
    /\ Len(frames) >= 1
    /\ Len(frames) <= Len(passed.items)
    /\ Len(frames) < MaxDepth
    /\ Count(1) = Len(passed.items)
    /\ \A k \in 1..Len(frames) : Placed(k) >= 1
    /\ \A k \in 1..(Len(frames) - 1) :
         /\ Count(k + 1) < Count(k)
         /\ Count(k + 1) = Count(k) - Placed(k)
    /\ Placed(Len(frames)) = Count(Len(frames))

(* Four items laid out by three or more nested invocations.                 *)
C13_Witness ==
  /\ PositiveCall
  /\ Len(passed.items) = 4
  /\ Len(frames) >= 3
  /\ Count(1) = 4
  /\ Count(Len(frames)) < Count(2)
  /\ Len(layouts) = 4

(***************************************************************************)
(* C14: after a render of Heatmap with unique category ids and a positive  *)
(* total size of the trends of enabled categories, every section's height  *)
(* is (size of the category's trends / total size of the trends of enabled *)
(* categories) * contentHeight; the sections are stacked without gap in    *)
(* ascending category order from y = headerHeight; their heights sum to    *)
(* contentHeight (1150 for feed, 1690 for story); and calculateLayout is   *)
(* called once per section, with the trends of the section's category.     *)
(***************************************************************************)
UniqueCategoryIds ==
  \A i, j \in 1..Len(categories) : categories[i].id = categories[j].id => i = j

EnabledIds == {categories[i].id : i \in {j \in 1..Len(categories) : categories[j].enabled}}

(* The sum of the sizes of the trends whose category is in ids.             *)
RECURSIVE SizeOfTrends(_, _)
SizeOfTrends(ts, ids) ==
  IF Len(ts) = 0 THEN 0
  ELSE (IF ts[1].category \in ids THEN ts[1].size ELSE 0) + SizeOfTrends(Tail(ts), ids)

RECURSIVE SumHeights(_)
SumHeights(secs) ==
  IF Len(secs) = 0 THEN Zero ELSE RAdd(secs[1].height, SumHeights(Tail(secs)))

BandsCase ==
  /\ rendered
  /\ UniqueCategoryIds
  /\ SizeOfTrends(trends, EnabledIds) > 0

C14_CategoryBands ==
  BandsCase =>
    /\ Len(sections) >= 1
    /\ \A i \in 1..Len(sections) :
         /\ sections[i].category.id \in EnabledIds
         /\ sections[i].height =
              RMul(RDiv(R(SizeOfTrends(trends, {sections[i].category.id})),
                        R(SizeOfTrends(trends, EnabledIds))),
                   R(IF format = "story" THEN 1690 ELSE 1150))
    /\ sections[1].y = R(IF format = "story" THEN 140 ELSE 120)
    /\ \A i \in 1..(Len(sections) - 1) :
         /\ sections[i + 1].y = RAdd(sections[i].y, sections[i].height)
         /\ sections[i].category.order <= sections[i + 1].category.order
    /\ SumHeights(sections) = R(IF format = "story" THEN 1690 ELSE 1150)
    /\ Len(layoutCalls) = Len(sections)
    /\ \A i \in 1..Len(sections) :
         /\ layoutCalls[i].items =
              SelectSeq(trends, LAMBDA t : t.category = sections[i].category.id)
         /\ \A j \in 1..Len(sections) :
              sections[j].category.id = sections[i].category.id => j = i

(* Two sections of different heights, sorted against the order of the       *)
(* categories prop, beside a disabled category that has a trend.            *)
C14_Witness ==
  /\ BandsCase
  /\ format = "story"
  /\ Len(sections) = 2
  /\ Len(categories) = 3
  /\ \E i \in 1..3 : ~categories[i].enabled /\ SizeOfTrends(trends, {categories[i].id}) > 0
  /\ sections[1].category = categories[3]
  /\ sections[1].height # sections[2].height
  /\ sections[2].y = RAdd(R(140), sections[1].height)
  /\ SumHeights(sections) = R(1690)

(***************************************************************************)
(* The row an invocation closed, as the cells it pushed, and the rectangle *)
(* it handed to the nested invocation.                                     *)
(***************************************************************************)
RowCells(k) == SubSeq(cells, frames[k].emitted + 1, frames[k].emitted + frames[k].row)
HasLeftover(k) == k < Len(frames)
Splits(k) == Count(k) >= 2

RECURSIVE SumWidths(_)
SumWidths(cs) == IF Len(cs) = 0 THEN Zero ELSE RAdd(cs[1].width, SumWidths(Tail(cs)))

RECURSIVE SumCellHeights(_)
SumCellHeights(cs) == IF Len(cs) = 0 THEN Zero ELSE RAdd(cs[1].height, SumCellHeights(Tail(cs)))

(* The row is a band along the top edge: its cells lie side by side, left   *)
(* to right, and together span the full width of the rectangle.             *)
BandAcrossWidth(k) ==
  LET f == frames[k]
      row == RowCells(k)
  IN /\ row[1].x = f.x
     /\ \A i \in 1..Len(row) : row[i].y = f.y /\ row[i].height = row[1].height
     /\ \A i \in 1..(Len(row) - 1) : row[i + 1].x = RAdd(row[i].x, row[i].width)
     /\ SumWidths(row) = f.width

(* The row is a column along the left edge: its cells are stacked top to    *)
(* bottom and together span the full height of the rectangle.               *)
ColumnAcrossHeight(k) ==
  LET f == frames[k]
      row == RowCells(k)
  IN /\ row[1].y = f.y
     /\ \A i \in 1..Len(row) : row[i].x = f.x /\ row[i].width = row[1].width
     /\ \A i \in 1..(Len(row) - 1) : row[i + 1].y = RAdd(row[i].y, row[i].height)
     /\ SumCellHeights(row) = f.height

(* The nested invocation gets the part below the band.                      *)
LeftoverBelow(k) ==
  LET f == frames[k]
      g == frames[k + 1]
      row == RowCells(k)
  IN /\ g.x = f.x
     /\ g.y = RAdd(f.y, row[1].height)
     /\ g.width = f.width
     /\ g.height = RSub(f.height, row[1].height)

(* The nested invocation gets the part to the right of the column.          *)
LeftoverRight(k) ==
  LET f == frames[k]
      g == frames[k + 1]
      row == RowCells(k)
  IN /\ g.x = RAdd(f.x, row[1].width)
     /\ g.y = f.y
     /\ g.width = RSub(f.width, row[1].width)
     /\ g.height = f.height

(* The weakest reading of "the row spans the full width, the leftover lies  *)
(* below": the row's cells reach from the left to the right edge and the    *)
(* nested invocation gets a full-width rectangle further down; likewise     *)
(* for "spans the full height, the leftover lies to the right".             *)
SpansWidth(k) ==
  /\ \E i \in 1..frames[k].row : RowCells(k)[i].x = frames[k].x
  /\ \E i \in 1..frames[k].row :
       RAdd(RowCells(k)[i].x, RowCells(k)[i].width) = RAdd(frames[k].x, frames[k].width)

SpansHeight(k) ==
  /\ \E i \in 1..frames[k].row : RowCells(k)[i].y = frames[k].y
  /\ \E i \in 1..frames[k].row :
       RAdd(RowCells(k)[i].y, RowCells(k)[i].height) = RAdd(frames[k].y, frames[k].height)

NestedBelow(k) ==
  /\ frames[k + 1].x = frames[k].x
  /\ frames[k + 1].width = frames[k].width
  /\ RLt(frames[k].y, frames[k + 1].y)

NestedRight(k) ==
  /\ frames[k + 1].y = frames[k].y
  /\ frames[k + 1].height = frames[k].height
  /\ RLt(frames[k].x, frames[k + 1].x)

(***************************************************************************)
(* C15 (as stated): in every invocation of layoutSquarified on two or more *)
(* items, when width >= height the finalized row spans the full width and  *)
(* the leftover lies below it (rows stacked top to bottom); when           *)
(* width < height the finalized row is a column spanning the full height   *)
(* and the leftover lies to its right (columns side by side).              *)
(***************************************************************************)
C15_SplitAxis_AsStated ==
  PositiveCall =>
    \A k \in 1..Len(frames) :
      Splits(k) =>
        IF RGe(frames[k].width, frames[k].height)
        THEN SpansWidth(k) /\ (HasLeftover(k) => NestedBelow(k))
        ELSE SpansHeight(k) /\ (HasLeftover(k) => NestedRight(k))

(***************************************************************************)
(* C15 (amended): in every invocation of layoutSquarified on two or more   *)
(* items, when width >= height the finalized row is a column along the     *)
(* left edge, its items stacked top to bottom and spanning the full        *)
(* height, and the leftover lies to its right; when width < height the     *)
(* finalized row is a band along the top edge, its items side by side and  *)
(* spanning the full width, and the leftover lies below it.                *)
(***************************************************************************)
C15_SplitAxis ==
  PositiveCall =>
    \A k \in 1..Len(frames) :
      Splits(k) =>
        IF RGe(frames[k].width, frames[k].height)
        THEN ColumnAcrossHeight(k) /\ (HasLeftover(k) => LeftoverRight(k))
        ELSE BandAcrossWidth(k) /\ (HasLeftover(k) => LeftoverBelow(k))

(* A column cut from a wide rectangle, then a band cut from the tall        *)
(* leftover, then more items.                                               *)
C15_Witness ==
  /\ PositiveCall
  /\ Len(frames) >= 3
  /\ RLt(frames[1].height, frames[1].width)
  /\ ColumnAcrossHeight(1) /\ LeftoverRight(1)
  /\ ~BandAcrossWidth(1)
  /\ RLt(frames[2].width, frames[2].height)
  /\ BandAcrossWidth(2) /\ LeftoverBelow(2)
  /\ ~ColumnAcrossHeight(2)

(***************************************************************************)
(* C16: in every invocation of layoutSquarified on two or more items the   *)
(* direction is decided from the invocation's own rectangle (vertical iff  *)
(* width >= height), side is min(width, height), and the cross-axis        *)
(* extents normalizedSize / rowLength of the items of the finalized row    *)
(* (the heights of their cells when vertical, the widths otherwise) sum to *)
(* side.                                                                   *)
(***************************************************************************)
RowItems(k) == SubSeq(frames[k].items, 1, frames[k].row)

RECURSIVE SumCrossExtents(_, _)
SumCrossExtents(row, rowLength) ==
  IF Len(row) = 0 THEN Zero
  ELSE RAdd(RDiv(row[1].normalizedSize, rowLength), SumCrossExtents(Tail(row), rowLength))

C16_SideAndCrossExtents ==
  PositiveCall =>
    \A k \in 1..Len(frames) :
      Splits(k) =>
        LET f == frames[k] IN
        /\ f.vertical = RGe(f.width, f.height)
        /\ f.side = RMin(f.width, f.height)
        /\ SumCrossExtents(RowItems(k), f.rowLength) = f.side
        /\ \A i \in 1..f.row :
             /\ RowCells(k)[i].id = RowItems(k)[i].id
             /\ (IF f.vertical THEN RowCells(k)[i].height ELSE RowCells(k)[i].width)
                  = RDiv(RowItems(k)[i].normalizedSize, f.rowLength)
        /\ (IF f.vertical THEN SumCellHeights(RowCells(k)) ELSE SumWidths(RowCells(k))) = f.side

(* The direction changes from one level to the next, and a row of two       *)
(* items shares the side.                                                   *)
C16_Witness ==
  /\ PositiveCall
  /\ Len(frames) >= 2
  /\ frames[1].vertical
  /\ Splits(2) /\ ~frames[2].vertical
  /\ frames[2].side = frames[2].width
  /\ RLt(frames[2].width, frames[2].height)
  /\ frames[2].row >= 2
  /\ SumWidths(RowCells(2)) = frames[2].side

(***************************************************************************)
(* C17: in every invocation of layoutSquarified on two or more items       *)
(* (sorted by non-increasing normalizedSize) the finalized row is a        *)
(* non-empty prefix of the items: the first item is always taken; every    *)
(* further item of the row has a worst ratio with it <= the worst ratio    *)
(* without it (a tie appends); and the first item left out, if any, makes  *)
(* the worst ratio strictly larger.  The worst ratio of a row is the       *)
(* largest max(L / s, s / L) over its items, with L = row area / side and  *)
(* s = normalizedSize / L.                                                 *)
(***************************************************************************)
RECURSIVE SumNormalized(_)
SumNormalized(its) ==
  IF Len(its) = 0 THEN Zero ELSE RAdd(its[1].normalizedSize, SumNormalized(Tail(its)))

RatiosOf(row, side) ==
  LET L == RDiv(SumNormalized(row), side) IN
  { RMax(RDiv(L, RDiv(row[i].normalizedSize, L)), RDiv(RDiv(row[i].normalizedSize, L), L)) :
      i \in 1..Len(row) }

Largest(ratios) == CHOOSE r \in ratios : \A q \in ratios : RLe(q, r)

(* The worst ratio of the first j items of the k-th invocation.             *)
PrefixWorst(k, j) == Largest(RatiosOf(SubSeq(frames[k].items, 1, j), frames[k].side))

C17_GreedyRow ==
  PositiveCall =>
    \A k \in 1..Len(frames) :
      Splits(k) =>
        LET f == frames[k] IN
        /\ \A i \in 1..(Count(k) - 1) :
             RGe(f.items[i].normalizedSize, f.items[i + 1].normalizedSize)
        /\ f.row >= 1
        /\ f.row <= Count(k)
        /\ \A i \in 1..f.row : RowCells(k)[i].id = f.items[i].id
        /\ \A j \in 2..f.row : RLe(PrefixWorst(k, j), PrefixWorst(k, j - 1))
        /\ f.row < Count(k) => RLt(PrefixWorst(k, f.row), PrefixWorst(k, f.row + 1))
        /\ IF f.row < Count(k)
           THEN /\ HasLeftover(k)
                /\ frames[k + 1].items = SubSeq(f.items, f.row + 1, Count(k))
           ELSE ~HasLeftover(k)

(* One row took an item on a tie, and a row was closed before an item that  *)
(* makes it strictly worse.                                                 *)
C17_Witness ==
  /\ PositiveCall
  /\ \E k \in 1..Len(frames) :
       /\ Splits(k)
       /\ \E j \in 2..frames[k].row : PrefixWorst(k, j) = PrefixWorst(k, j - 1)
  /\ \E k \in 1..Len(frames) :
       /\ Splits(k)
       /\ frames[k].row < Count(k)
       /\ RLt(PrefixWorst(k, frames[k].row), PrefixWorst(k, frames[k].row + 1))

(***************************************************************************)
(* C18: for every invocation layoutSquarified(items, x, y, width, height)  *)
(* of a call with positive-size items: width * height equals the sum of    *)
(* normalizedSize over the items passed; width >= 0 and height >= 0; the   *)
(* rectangle lies inside the container; and it shares no positive area     *)
(* with any cell emitted before the invocation.                            *)
(***************************************************************************)
C18_LeftoverInvariant ==
  PositiveCall =>
    \A k \in 1..Len(frames) :
      LET f == frames[k] IN
      /\ RMul(f.width, f.height) = SumNormalized(f.items)
      /\ RGe(f.width, Zero)
      /\ RGe(f.height, Zero)
      /\ Inside(f)
      /\ f.emitted = Len(passed.items) - Count(k)
      /\ \A i \in 1..f.emitted : ~Overlap(f, cells[i])

(* A second nested invocation: a smaller rectangle, away from the origin in *)
(* both directions, beside the cells emitted before it.                     *)
C18_Witness ==
  /\ PositiveCall
  /\ Len(frames) >= 3
  /\ frames[3].emitted >= 2
  /\ RLt(Zero, frames[3].x)
  /\ RLt(Zero, frames[3].y)
  /\ RLt(Zero, RMul(frames[3].width, frames[3].height))
  /\ RMul(frames[3].width, frames[3].height) = SumNormalized(frames[3].items)
  /\ \A i \in 1..frames[3].emitted : ~Overlap(frames[3], cells[i])

(***************************************************************************)
(* C19: after every call with positive-size items the returned list is     *)
(* ordered by non-increasing item size, and rectangles of items of equal   *)
(* size are in the order their items have in the caller's array, whatever  *)
(* that order is.                                                          *)
(***************************************************************************)
(* The index of a rectangle's item in the caller's array.                   *)
PositionOf(rect) == CHOOSE i \in 1..Len(passed.items) : passed.items[i].id = rect.id

C19_OutputOrder ==
  PositiveCall =>
    \A i, j \in 1..Len(layouts) :
      i < j =>
        /\ layouts[i].size >= layouts[j].size
        /\ layouts[i].size = layouts[j].size =>
             PositionOf(layouts[i]) < PositionOf(layouts[j])

(* The caller's array was not sorted, and has two items of one size around  *)
(* a larger one.                                                            *)
C19_Witness ==
  /\ PositiveCall
  /\ Len(passed.items) = 4
  /\ passed.items[1].size = passed.items[3].size
  /\ passed.items[2].size > passed.items[1].size
  /\ Len(layouts) = 4
  /\ layouts[1].id = 2
  /\ \E i \in 1..3 : layouts[i].id = 1 /\ layouts[i + 1].id = 3

(***************************************************************************)
(* C20: after every call with a non-empty list of positive-size items the  *)
(* returned list has exactly one rectangle per input item (the ids of the  *)
(* rectangles are the ids of the items, each once), although               *)
(* layoutSquarified runs twice on one accumulator.                         *)
(***************************************************************************)
RectanglesOf(id) == {k \in 1..Len(layouts) : layouts[k].id = id}

C20_OneRectanglePerItem ==
  PositiveCall =>
    /\ Len(layouts) = Len(passed.items)
    /\ \A i \in 1..Len(passed.items) : Cardinality(RectanglesOf(passed.items[i].id)) = 1
    /\ \A k \in 1..Len(layouts) :
         \E i \in 1..Len(passed.items) : passed.items[i].id = layouts[k].id

(* Four items through both passes: four rectangles, four cells.             *)
C20_Witness ==
  /\ PositiveCall
  /\ Len(passed.items) = 4
  /\ Len(layouts) = 4
  /\ Len(cells) = 4
  /\ {layouts[k].id : k \in 1..4} = 1..4
  /\ Len(frames) >= 2

(***************************************************************************)
(* C21: after a render of Heatmap, a trend is among the items of a         *)
(* calculateLayout call iff some category with the trend's category id is  *)
(* enabled; the items of every section are the trends of its category;     *)
(* trends whose category id matches no enabled category are in no section  *)
(* and add nothing to the total size the heights are scaled by (with       *)
(* unique ids the total is the size of the trends of enabled categories);  *)
(* and every section has at least one trend.                               *)
(***************************************************************************)
IsPassed(t) ==
  \E i \in 1..Len(layoutCalls) :
    \E k \in 1..Len(layoutCalls[i].items) : layoutCalls[i].items[k] = t

InSection(t) ==
  \E i \in 1..Len(sections) :
    \E k \in 1..Len(sections[i].items) : sections[i].items[k] = t

C21_EnabledCategoriesOnly ==
  rendered =>
    /\ \A n \in 1..Len(trends) :
         /\ IsPassed(trends[n]) <=> trends[n].category \in EnabledIds
         /\ InSection(trends[n]) <=> trends[n].category \in EnabledIds
    /\ \A i \in 1..Len(sections) :
         /\ Len(sections[i].items) >= 1
         /\ sections[i].category.enabled
         /\ \A k \in 1..Len(sections[i].items) :
              sections[i].items[k].category = sections[i].category.id
    /\ \E ids \in SUBSET EnabledIds : scaledBy = SizeOfTrends(trends, ids)
    /\ UniqueCategoryIds => scaledBy = SizeOfTrends(trends, EnabledIds)

(* One trend each in an enabled, a disabled and an unknown category.        *)
C21_Witness ==
  /\ rendered
  /\ Len(trends) = 3
  /\ Len(categories) = 2
  /\ Len(sections) = 1
  /\ IsPassed(trends[1])
  /\ ~IsPassed(trends[2]) /\ \E i \in 1..2 : categories[i].id = trends[2].category
  /\ ~IsPassed(trends[3]) /\ \A i \in 1..2 : categories[i].id # trends[3].category
  /\ scaledBy = trends[1].size
  /\ scaledBy < SumSizes(trends)

(***************************************************************************)
(* C22 (as stated, for unique category ids): after a render of Heatmap     *)
(* with trends of positive sizes, every calculateLayout call gets a        *)
(* height (section height - 50) > 0 and a width (canvas width - 60) > 0.   *)
(***************************************************************************)
C22_EnginePrecondition ==
  (rendered /\ UniqueCategoryIds /\ \A n \in 1..Len(trends) : trends[n].size > 0) =>
    \A i \in 1..Len(layoutCalls) :
      /\ RLt(Zero, layoutCalls[i].height)
      /\ RLt(Zero, layoutCalls[i].width)

(***************************************************************************)
(* The aggregator's properties.                                            *)
(***************************************************************************)
(* The sources that are configured: the optional ones chosen, and           *)
(* googleTrends.                                                            *)
ConfiguredSources == {s \in AllSources : s = "googleTrends" \/ s \in configured}

(* The cache holds a result less than CACHE_DURATION old.                   *)
Fresh == cachedData # 0 /\ now - cacheTimestamp < CACHE_DURATION

(* C23: a fetchAllTrending(false) made while the cache holds a result less  *)
(* than CACHE_DURATION old returns that very results object and calls no    *)
(* source; a forced call, and a call made when the cache is empty or at     *)
(* least CACHE_DURATION old, calls every configured source and returns      *)
(* nothing before its await; and when such a call resumes, cachedData is    *)
(* its own results object and cacheTimestamp the time of that moment.       *)
C23_CachePolicy ==
  /\ lastEvent.kind = "call" =>
       IF ~lastEvent.forceRefresh /\ Fresh
         THEN /\ fetches[lastEvent.call].hit
              /\ fetches[lastEvent.call].returned = cachedData
              /\ fetches[lastEvent.call].called = {}
         ELSE /\ ~fetches[lastEvent.call].hit
              /\ fetches[lastEvent.call].returned = 0
              /\ fetches[lastEvent.call].called = ConfiguredSources
  /\ lastEvent.kind = "complete" =>
       /\ cachedData = lastEvent.call
       /\ cacheTimestamp = now
       /\ fetches[lastEvent.call].returned = lastEvent.call

(* The second call is unforced, four minutes after the first one resumed,   *)
(* and is answered from the cache.                                          *)
C23_Witness ==
  /\ lastEvent.kind = "call"
  /\ lastEvent.call = 2
  /\ ~lastEvent.forceRefresh
  /\ now - cacheTimestamp = CACHE_DURATION - 1
  /\ cachedData = 1
  /\ fetches[2].returned = 1
  /\ fetches[2].called = {}

(* How many entries of results.errors name the source s.                    *)
ErrorsOf(f, s) ==
  Cardinality({k \in 1..Len(f.results.errors) : f.results.errors[k].source = s})

(* C24: in every call that fetches, a rejected source no longer holds the   *)
(* call back, has exactly one entry in results.errors and keeps its empty   *)
(* default; a fulfilled source has its data in the results and no errors    *)
(* entry; a source that was not called has neither; and when the call       *)
(* resumes, with or without errors, its results are what the cache holds.   *)
C24_FailureIsolation ==
  /\ \A i \in 1..Len(fetches) :
       ~fetches[i].hit =>
         /\ \A s \in AllSources :
              /\ fetches[i].settled[s] = "rejected" =>
                   /\ s \notin fetches[i].pending
                   /\ ErrorsOf(fetches[i], s) = 1
                   /\ fetches[i].results.data[s] = "empty"
              /\ fetches[i].settled[s] = "fulfilled" =>
                   /\ s \notin fetches[i].pending
                   /\ ErrorsOf(fetches[i], s) = 0
                   /\ fetches[i].results.data[s] = "data"
              /\ fetches[i].settled[s] \in {"none", "pending"} =>
                   /\ ErrorsOf(fetches[i], s) = 0
                   /\ fetches[i].results.data[s] = "empty"
              /\ fetches[i].settled[s] = "none" <=> s \notin ConfiguredSources
         /\ fetches[i].returned # 0 =>
              /\ fetches[i].returned = i
              /\ \A s \in ConfiguredSources : fetches[i].settled[s] \in {"fulfilled", "rejected"}
  /\ \A i \in 1..Len(fetches) :
       (lastEvent.kind = "complete" /\ lastEvent.call = i) =>
         /\ cachedData = i
         /\ cacheTimestamp = now
         /\ fetches[i].returned = i

(* A call has resumed after spotify was rejected and googleTrends           *)
(* fulfilled, and its results are cached.                                   *)
C24_Witness ==
  /\ lastEvent.kind = "complete"
  /\ lastEvent.call = 1
  /\ fetches[1].settled["spotify"] = "rejected"
  /\ fetches[1].settled["googleTrends"] = "fulfilled"
  /\ fetches[1].results.errors = <<[source |-> "spotify", error |-> "message"]>>
  /\ fetches[1].results.data["spotify"] = "empty"
  /\ fetches[1].results.data["googleTrends"] = "data"
  /\ cachedData = 1
  /\ cacheTimestamp = now

(* getCacheStatus().cached                                                  *)
GetCacheStatusCached == ~(cachedData = 0 \/ cacheTimestamp = 0)

(* The calls that fetch and have resumed from their await.                  *)
Resumed == {i \in 1..Len(fetches) : ~fetches[i].hit /\ fetches[i].returned # 0}

(* The calls that fetch.                                                    *)
Fetching == {i \in 1..Len(fetches) : ~fetches[i].hit}

(* C25: once clearCache() has run, getCacheStatus() reports cached: false   *)
(* and an unforced call would fetch, as long as no call made after the      *)
(* clear has resumed, whatever the calls made before it do; and once every  *)
(* call has resumed, a cache that holds something holds the results of the  *)
(* call that was made last.                                                 *)
C25_ClearVersusInFlight ==
  /\ (clearedAfter >= 0 /\ \A i \in Resumed : i <= clearedAfter) =>
       /\ ~GetCacheStatusCached
       /\ ~CacheHit(FALSE, cachedData, cacheTimestamp, now)
  /\ (Fetching # {} /\ Resumed = Fetching /\ cachedData # 0) =>
       \A i \in Fetching : i <= cachedData

(***************************************************************************)
(* The watchlist's properties.                                             *)
(***************************************************************************)
(* C26: right after clearWatchlist(), getWatchlist().keywords is empty and  *)
(* the object clearWatchlist returned has no keywords.                      *)
C26_ClearWatchlist ==
  wlLast = "clearWatchlist" =>
    /\ GetWatchlist(wlStorage, DEFAULT_WATCHLIST).value.keywords = <<>>
    /\ wlReturned.keywords = <<>>

(***************************************************************************)
(* The preferences' properties.                                            *)
(***************************************************************************)
(* C27: right after resetPreferences(), getPreferences() returns the        *)
(* original defaults: no category filters, no keywords, no exclude          *)
(* keywords, spotify and googleTrends on, tiktok and instagram off,         *)
(* autoRefresh false and refreshInterval 60.                                *)
C27_ResetPreferences ==
  prefLast = "resetPreferences" =>
    GetPreferences(prefStorage, DEFAULT_PREFERENCES).value = OriginalPreferences

(***************************************************************************)
(* The App's properties.                                                   *)
(***************************************************************************)
(* The handlers that change the list.                                       *)
Adds == {"add", "screenshot", "suggestion"}
Changes == Adds \cup {"edit", "delete"}

(* C28: after a handler that changes the list, what saveTrends wrote last   *)
(* reads back as the trends state; an edit left the length alone and put    *)
(* the given trend in the place of each trend with its id and nowhere       *)
(* else; an add put the one new trend after the old list; a delete left     *)
(* the trends with another id, in their order.                              *)
C28_TrendPersistence ==
  appLast.handler \in Changes =>
    /\ trendsStorage.kind = "json"
    /\ ParseAll(trendsStorage.value, TrendFields) = appTrends
    /\ appLast.handler = "edit" =>
         /\ Len(appTrends) = Len(appLast.before)
         /\ \E k \in 1..Len(appTrends) : appLast.before[k].id = appLast.trend.id
         /\ \A k \in 1..Len(appTrends) :
              appTrends[k] = IF appLast.before[k].id = appLast.trend.id
                             THEN appLast.trend
                             ELSE appLast.before[k]
    /\ appLast.handler \in Adds =>
         /\ Len(appTrends) = Len(appLast.before) + 1
         /\ SubSeq(appTrends, 1, Len(appLast.before)) = appLast.before
         /\ appTrends[Len(appTrends)] = appLast.trend
    /\ appLast.handler = "delete" =>
         appTrends = SelectSeq(appLast.before, LAMBDA t : t.id # appLast.trend.id)

(* A trend was edited in a list of three, one of them without a category,   *)
(* and the list read back from storage is the state.                        *)
C28_Witness ==
  /\ appLast.handler = "edit"
  /\ Len(appTrends) = 3
  /\ appLast.trend.id = 2
  /\ appLast.before[2].size # appLast.trend.size
  /\ appTrends[2] = appLast.trend
  /\ appTrends[3].category = "undefined"
  /\ ParseAll(trendsStorage.value, TrendFields) = appTrends

(* C29: after a handler that changes the list, the snapshot stored for the  *)
(* current week lists the id, name, category, size and change of exactly    *)
(* the trends of the list, in order, and the snapshots of the other weeks   *)
(* are what they were.                                                      *)
C29_WeeklySnapshot ==
  appLast.handler \in Changes =>
    /\ appWeek \in DOMAIN history
    /\ ParseAll(history[appWeek].trends, SnapshotFields) = SnapshotOf(appTrends)
    /\ \A w \in (DOMAIN history \cup DOMAIN historyBefore) \ {appWeek} :
         /\ w \in DOMAIN history
         /\ w \in DOMAIN historyBefore
         /\ history[w] = historyBefore[w]

(***************************************************************************)
(* The CategoryManager's properties.                                       *)
(***************************************************************************)
(* C30: no two categories of the list have the same order.                  *)
C30_OrderUniqueness ==
  \A i, j \in 1..Len(managed) : managed[i].order = managed[j].order => i = j

=============================================================================
